---- MODULE Spec2Model ----
(***************************************************************************)
(* A model of gui_utility's output-profile engine (output_profile.py):     *)
(* ProfileSelector over the Screen snapshot of xrandr.py, the sinks of     *)
(* pactl.py and the process invoker of cli_tool.py; and of two of its      *)
(* other programs, WebSocketBroadcaster (websocket_server.py) and          *)
(* BatteryMonitor (battery_monitor.py).                                    *)
(*                                                                         *)
(* Python values are modelled as follows.                                  *)
(*   None           the record None                                        *)
(*   Decimal(n)     the record [dec |-> n] (integral rates)                *)
(*   dict           a sequence of [key, value] records in insertion order  *)
(*   list / tuple   a sequence                                             *)
(*   str            a string                                               *)
(* An external tool invocation is a record [tool, args] appended to the    *)
(* log `calls`, exactly the argv CLITool.invoke receives.                  *)
(***************************************************************************)
EXTENDS Integers, Sequences, FiniteSets, TLC

VARIABLES
    settings,               \* ProfileSelector.settings
    screen,                 \* ProfileSelector.screen (the held snapshot)
    current_profile,        \* ProfileSelector.current_profile
    default_profile,        \* ProfileSelector.default_profile
    candidate_pactl_sinks,  \* ProfileSelector.candidate_pactl_sinks
    display,                \* the X server's outputs, as xrandr reports them
    sinks,                  \* the sinks `pactl list sinks` reports
    default_sink,           \* PulseAudio's default sink name
    calls,                  \* external invocations of the last operation
    outcome,                \* how the last operation ended: "ok" or the error raised
    result,                 \* what the last operation returned
    op,                     \* the last operation and its inputs
    document,               \* Settings: the JSON document in the settings file
    loaded,                 \* Settings.from_json: the Settings or the error raised
    stored,                 \* Settings.to_json: the document written or the error raised
    report,                 \* XRandr.screen: the lines xrandr has printed so far
    parser,                 \* XRandr.screen: its local variables
    parsed,                 \* XRandr.screen: the Screen returned or the error raised
    exit_code,              \* main: the exit status of the process, -1 while none has exited
    stdout,                 \* main: the values printed
    decoded,                \* EDIDInfo: the bytes given, the EDIDInfo built or the error raised
    looked_up,              \* EDIDInfo.descriptor: the block returned or the error raised
    invocation,             \* alternates between 0 and 1 with every run of the tool
    clients,                \* WebSocketBroadcaster._clients
    clients_lock,           \* the thread holding _clients_lock, or Free
    position,               \* the code position of every handler thread and of the send_state thread
    snapshot,               \* send_state: the clients of its list it has still to send to
    connection,             \* every connection: its request and whether it is closed
    battery,                \* BatteryMonitor: capacity and connected, or that none exists
    tray,                   \* the Gtk.StatusIcon: the pixbuf and the tooltip text set last
    notification            \* what the last update() sent through busctl.notify, or None

engine_vars == <<settings, screen, current_profile, default_profile,
                 candidate_pactl_sinks, display, sinks, default_sink,
                 calls, outcome, result, op>>

parser_vars == <<report, parser, parsed>>

settings_vars == <<document, loaded, stored>>

main_vars == <<exit_code, stdout>>

edid_vars == <<decoded, looked_up>>

cycling_vars == <<invocation>>

broadcaster_vars == <<clients, clients_lock, position, snapshot, connection>>

battery_vars == <<battery, tray, notification>>

vars == <<settings, screen, current_profile, default_profile,
          candidate_pactl_sinks, display, sinks, default_sink,
          calls, outcome, result, op, document, loaded, stored,
          report, parser, parsed, exit_code, stdout,
          decoded, looked_up,
          invocation,
          clients, clients_lock, position, snapshot, connection,
          battery, tray, notification>>

-----------------------------------------------------------------------------
(* Bounds of the model.                                                    *)

\* Most entries (default-profile rules plus profiles) of a settings document.
MaxEntries == 2

\* Latest poll, short of the last one, at which the root window id changes.
MaxSettle == 1

\* Most lines of a report of the configuration tool.
MaxLines == 4

\* The output entries of a profile in a settings file are at most this many.
MaxDocOutputs == 2

-----------------------------------------------------------------------------
(* Python values.                                                          *)

None == [none |-> TRUE]

Decimal(n) == [dec |-> n]

\* bool(Decimal | None): None and a zero Decimal are falsy.
Truthy(d) == d # None /\ d.dec # 0

\* str(Decimal) for an integral Decimal.
DecimalStr(d) == ToString(d.dec)

Range(s) == {s[i] : i \in DOMAIN s}

\* list(d.keys())
Keys(d) == [i \in DOMAIN d |-> d[i].key]

\* key in d
HasKey(d, k) == \E i \in DOMAIN d : d[i].key = k

\* d[k]
Get(d, k) == d[CHOOSE i \in DOMAIN d : d[i].key = k].value

\* list.index(x): the first position of x
IndexOf(s, x) == CHOOSE i \in DOMAIN s : s[i] = x /\ \A j \in 1..(i - 1) : s[j] # x

\* [x for x in s if Test(x)], order kept
RECURSIVE SelectSeqIdx(_, _)
SelectSeqIdx(s, keep) ==
    IF s = <<>> THEN <<>>
    ELSE LET n == Len(s)
             front == SelectSeqIdx(SubSeq(s, 1, n - 1), keep)
         IN  IF n \in keep THEN Append(front, s[n]) ELSE front

-----------------------------------------------------------------------------
(* xrandr.py value types.                                                  *)

Resolution(w, h) == [width |-> w, height |-> h]

Position(x, y) == [x |-> x, y |-> y]

Mode(res, rate) == [resolution |-> res, refresh_rate |-> rate]

Configuration(mode, pos) == [mode |-> mode, position |-> pos]

\* Resolution.__str__
ResolutionStr(r) == ToString(r.width) \o "x" \o ToString(r.height)

\* Position.to_cli_str
to_cli_str(p) == ToString(p.x) \o "x" \o ToString(p.y)

Output(name, connected, cfg, primary) ==
    [name |-> name, connected |-> connected,
     configuration |-> cfg, primary |-> primary]

\* Screen.connected_outputs / active_outputs and their name projections
connected_outputs(scr) ==
    SelectSeqIdx(scr.outputs, {i \in DOMAIN scr.outputs : scr.outputs[i].connected})

active_outputs(scr) ==
    SelectSeqIdx(scr.outputs,
                 {i \in DOMAIN scr.outputs : scr.outputs[i].configuration # None})

connected_output_names(scr) ==
    [i \in DOMAIN connected_outputs(scr) |-> connected_outputs(scr)[i].name]

active_output_names(scr) ==
    [i \in DOMAIN active_outputs(scr) |-> active_outputs(scr)[i].name]

\* Mutant of primary_output: an output flagged primary counts whether or not
\* it has a configuration.
primary_output_any_flagged(scr) ==
    LET primary_outputs ==
            SelectSeqIdx(scr.outputs, {i \in DOMAIN scr.outputs : scr.outputs[i].primary})
    IN  IF Len(primary_outputs) > 1
        THEN [ok |-> FALSE, error |-> "AssertionError: Multiple primary outputs!"]
        ELSE IF primary_outputs # <<>>
        THEN [ok |-> TRUE, output |-> primary_outputs[1]]
        ELSE IF active_outputs(scr) # <<>>
        THEN [ok |-> TRUE, output |-> active_outputs(scr)[1]]
        ELSE [ok |-> FALSE, error |-> "LookupError: no primary output because no active outputs"]

\* Screen.primary_output: [ok |-> TRUE, output |-> o] or [ok |-> FALSE, error |-> e]
primary_output(scr) ==
    LET primary_outputs ==
            SelectSeqIdx(scr.outputs,
                         {i \in DOMAIN scr.outputs :
                              scr.outputs[i].configuration # None
                              /\ scr.outputs[i].primary})
    IN  IF Len(primary_outputs) > 1
        THEN [ok |-> FALSE, error |-> "AssertionError: Multiple primary outputs!"]
        ELSE IF primary_outputs # <<>>
        THEN [ok |-> TRUE, output |-> primary_outputs[1]]
        ELSE IF active_outputs(scr) # <<>>
        THEN [ok |-> TRUE, output |-> active_outputs(scr)[1]]
        ELSE [ok |-> FALSE, error |-> "LookupError: no primary output because no active outputs"]

-----------------------------------------------------------------------------
(* xrandr.py: EDIDInfo and Monitor.                                        *)

\* bytes are sequences of 0..255; a hex string has two digits per byte.
HexDigits == "0123456789abcdef"

HexUpper == "0123456789ABCDEF"

HexValue(c) ==
    CHOOSE n \in 0..15 : \/ SubSeq(HexDigits, n + 1, n + 1) = c
                         \/ SubSeq(HexUpper, n + 1, n + 1) = c

\* bytes.fromhex(s) of a string of hex digits: ValueError for an odd length
fromhex(s) ==
    IF Len(s) % 2 = 1
    THEN [ok |-> FALSE,
          error |-> "ValueError: non-hexadecimal number found in fromhex() arg at position "
                    \o ToString(Len(s))]
    ELSE [ok |-> TRUE,
          bytes |-> [i \in 1..(Len(s) \div 2) |->
                        16 * HexValue(SubSeq(s, 2 * i - 1, 2 * i - 1))
                        + HexValue(SubSeq(s, 2 * i, 2 * i))]]

\* bytes.hex()
RECURSIVE hex(_)
hex(bytes) ==
    IF bytes = <<>> THEN ""
    ELSE IF Len(bytes) = 1
    THEN SubSeq(HexDigits, (bytes[1] \div 16) + 1, (bytes[1] \div 16) + 1)
         \o SubSeq(HexDigits, (bytes[1] % 16) + 1, (bytes[1] % 16) + 1)
    ELSE hex(SubSeq(bytes, 1, Len(bytes) \div 2))
         \o hex(SubSeq(bytes, (Len(bytes) \div 2) + 1, Len(bytes)))

\* "".join(lines)
RECURSIVE join(_)
join(strings) == IF strings = <<>> THEN "" ELSE strings[1] \o join(Tail(strings))

\* b"\x00\xff\xff\xff\xff\xff\xff\x00"
EdidHeader == <<0, 255, 255, 255, 255, 255, 255, 0>>

\* Mutant of valid_edid: the header is not looked at.
valid_edid_any_header(raw) == ~(Len(raw) < 128)

\* EDIDInfo.__post_init__: the condition under which construction succeeds
valid_edid(raw) == ~(Len(raw) < 128 \/ SubSeq(raw, 1, 8) # EdidHeader)

\* EDIDInfo(raw=raw): the instance, or the AssertionError of line 56
EDIDInfo(raw) ==
    IF valid_edid(raw) THEN [ok |-> TRUE, edid |-> [raw |-> raw]]
    ELSE [ok |-> FALSE, error |-> "AssertionError: Invalid edid data: " \o hex(raw)]

\* EDIDInfo.base
base(edid) == SubSeq(edid.raw, 1, 128)

\* The index-th (0..3) 18-byte block at 0x36 (line 84)
descriptor_block(edid, index) == SubSeq(base(edid), 54 + 18 * index + 1, 54 + 18 * (index + 1))

\* EDIDInfo.descriptor_blocks, evaluated when first read: the blocks that
\* begin with two zero bytes, or the AssertionError of line 87.
descriptor_blocks(edid) ==
    LET display_blocks == {index \in 0..3 :
                               SubSeq(descriptor_block(edid, index), 1, 2) = <<0, 0>>}
        kept == SelectSeqIdx([i \in 1..4 |-> descriptor_block(edid, i - 1)],
                             {i \in 1..4 : (i - 1) \in display_blocks})
        nonzero == {index \in display_blocks : descriptor_block(edid, index)[3] # 0}
        first == CHOOSE index \in nonzero : \A other \in nonzero : index <= other
    IN  IF nonzero # {}
        THEN [ok |-> FALSE,
              error |-> "AssertionError: Reserved descriptor byte nonzero: "
                        \o hex(descriptor_block(edid, first))]
        ELSE [ok |-> TRUE, blocks |-> kept]

\* EDIDInfo.descriptor(id) (lines 98-102): the first of descriptor_blocks
\* whose byte 3 is id, b"" when there is none; reading descriptor_blocks may
\* raise.
descriptor(edid, id) ==
    LET read == descriptor_blocks(edid)
        typed == {i \in DOMAIN read.blocks : read.blocks[i][4] = id}
    IN  IF ~read.ok THEN read
        ELSE IF typed = {} THEN [ok |-> TRUE, block |-> <<>>]
        ELSE [ok |-> TRUE,
              block |-> read.blocks[CHOOSE i \in typed : \A j \in typed : i <= j]]

\* Monitor(reported_modes, preferred_mode, edid)
Monitor(modes, preferred, edid) ==
    [reported_modes |-> modes, preferred_mode |-> preferred, edid |-> edid]

\* The order of the dataclasses Resolution and Mode (order=True): by fields,
\* in declaration order; the rates compared are Decimals.
ResolutionLess(a, b) ==
    a.width < b.width \/ (a.width = b.width /\ a.height < b.height)

ModeLess(a, b) ==
    \/ ResolutionLess(a.resolution, b.resolution)
    \/ a.resolution = b.resolution /\ a.refresh_rate.dec < b.refresh_rate.dec

\* sorted(modes, reverse=True)
RECURSIVE SortedReverse(_)
SortedReverse(modes) ==
    IF modes = {} THEN <<>>
    ELSE LET greatest == CHOOSE m \in modes : \A n \in modes \ {m} : ModeLess(n, m)
         IN  <<greatest>> \o SortedReverse(modes \ {greatest})

\* Mutant of sorted_modes: the modes at the preferred resolution are not
\* moved to the front.
sorted_modes_ungrouped(monitor) ==
    IF monitor.preferred_mode # None
    THEN <<monitor.preferred_mode>>
         \o SortedReverse(monitor.reported_modes \ {monitor.preferred_mode})
    ELSE SortedReverse(monitor.reported_modes)

\* Monitor.sorted_modes
sorted_modes(monitor) ==
    LET preferred_resolution_modes ==
            IF monitor.preferred_mode # None
            THEN <<monitor.preferred_mode>>
                 \o SortedReverse({mode \in monitor.reported_modes \ {monitor.preferred_mode} :
                                      mode.resolution = monitor.preferred_mode.resolution})
            ELSE <<>>
    IN  preferred_resolution_modes
        \o SortedReverse(monitor.reported_modes \ Range(preferred_resolution_modes))

\* Monitor.default_mode (sorted_modes[0] raises IndexError on no modes)
default_mode(monitor) ==
    IF monitor.preferred_mode # None
    THEN [ok |-> TRUE, mode |-> monitor.preferred_mode]
    ELSE IF sorted_modes(monitor) # <<>>
    THEN [ok |-> TRUE, mode |-> sorted_modes(monitor)[1]]
    ELSE [ok |-> FALSE, error |-> "IndexError"]

-----------------------------------------------------------------------------
(* xrandr.py: XRandr.screen, the parser of the report of `xrandr --prop`.  *)
(* A report line is modelled by the pattern it matches and the groups the  *)
(* pattern captures:                                                       *)
(*   screen   _SCREEN_PATTERN: name, width, height                         *)
(*   output   _OUTPUT_PATTERN: name, state, primary, geometry (or None)    *)
(*   modes    _SUPPORTED_RESOLUTION_PATTERN: width, height and the tokens  *)
(*            _REFRESH_RATE_PATTERN finds: rate, current, preferred        *)
(*   edid     _EDID_PATTERN                                                *)
(*   hex      _HEX_PATTERN: hex                                            *)
(*   other    a line no pattern matches                                    *)
(*   blank    an empty line or a line of whitespace                        *)
(*   indented a screen header or an output header after some whitespace   *)

ScreenLine(name, w, h) == [kind |-> "screen", name |-> name, width |-> w, height |-> h]

OutputLine(name, state, primary, geometry) ==
    [kind |-> "output", name |-> name, state |-> state, primary |-> primary,
     geometry |-> geometry]

Geometry(w, h, x, y) == [width |-> w, height |-> h, x |-> x, y |-> y]

ModeLine(w, h, rates) == [kind |-> "modes", width |-> w, height |-> h, rates |-> rates]

RateToken(rate, current, preferred) ==
    [rate |-> rate, current |-> current, preferred |-> preferred]

EdidLine == [kind |-> "edid"]

HexLine(digits) == [kind |-> "hex", hex |-> digits]

OtherLine == [kind |-> "other"]

\* A line with no visible character: as a line of the loop it matches no
\* pattern; at the top and at the end of the output strip() removes it.
BlankLine == [kind |-> "blank"]

\* The line l, printed after some whitespace
IndentedLine(l) == [kind |-> "indented", line |-> l]

\* A mode line whose text goes on, after the resolution, as an output header
\* does: a connection state, then " primary" or not, then a geometry or not,
\* then the rates, as in "   1920x1080 connected primary 1920x1080+0+0 60*+ 30".
\* As a mode line its rates are every number _REFRESH_RATE_PATTERN finds after
\* the resolution: the four numbers of a geometry "WxH+X+Y" first, the second
\* and the third followed by "+", then the rates. Without the indentation the
\* text is an output header whose name is the resolution, and _OUTPUT_PATTERN
\* captures the primary mark and the geometry.
HeaderLikeModeLine(w, h, state, primary, geometry, rates) ==
    LET geometry_rates ==
            IF geometry = None THEN <<>>
            ELSE <<RateToken(Decimal(geometry.width), FALSE, FALSE),
                   RateToken(Decimal(geometry.height), FALSE, TRUE),
                   RateToken(Decimal(geometry.x), FALSE, TRUE),
                   RateToken(Decimal(geometry.y), FALSE, FALSE)>>
    IN  [kind |-> "modes", width |-> w, height |-> h,
         rates |-> geometry_rates \o rates,
         header |-> OutputLine(ToString(w) \o "x" \o ToString(h), state,
                               primary, geometry)]

\* Output(name, connected, monitor, configuration, primary), as the parser
\* builds it
ParsedOutput(name, connected, monitor, cfg, primary) ==
    [name |-> name, connected |-> connected, monitor |-> monitor,
     configuration |-> cfg, primary |-> primary]

\* clear_output() (lines 379-401)
clear_output(p) ==
    [screen_name |-> p.screen_name,
     combined_resolution |-> p.combined_resolution,
     outputs |-> p.outputs,
     output_name |-> "", output_connected |-> FALSE, output_primary |-> FALSE,
     output_resolution |-> None, output_refresh_rate |-> None,
     output_position |-> None, output_modes |-> <<>>,
     output_preferred_mode |-> None, output_edid_lines |-> <<>>,
     in_section |-> ""]

\* The locals of XRandr.screen before the first line (lines 363-403)
ParserStart ==
    clear_output([screen_name |-> "", combined_resolution |-> None, outputs |-> <<>>])

Raised(error) == [ok |-> FALSE, error |-> error]

Continues(p) == [ok |-> TRUE, parser |-> p]

\* add_pending_output() (lines 405-439)
\* Mutant of add_pending_output: an output gets a Monitor only when it has
\* modes or a preferred mode.
add_pending_output_modes_only(p) ==
    LET raw == fromhex(join(p.output_edid_lines))
        edid == EDIDInfo(raw.bytes)
        monitor ==
            IF p.output_modes # <<>> \/ p.output_preferred_mode # None
            THEN Monitor(Range(p.output_modes), p.output_preferred_mode,
                         IF p.output_edid_lines # <<>> THEN edid.edid ELSE None)
            ELSE None
        configuration ==
            IF p.output_resolution # None /\ p.output_position # None
            THEN Configuration(Mode(p.output_resolution, p.output_refresh_rate),
                               p.output_position)
            ELSE None
        output == ParsedOutput(p.output_name, p.output_connected, monitor,
                               configuration, p.output_primary)
    IN  IF p.output_name = "" THEN Continues(p)
        ELSE IF p.output_edid_lines # <<>> /\ ~raw.ok THEN Raised(raw.error)
        ELSE IF p.output_edid_lines # <<>> /\ ~edid.ok THEN Raised(edid.error)
        ELSE Continues(clear_output([p EXCEPT !.outputs = Append(@, output)]))

add_pending_output(p) ==
    LET raw == fromhex(join(p.output_edid_lines))
        edid == EDIDInfo(raw.bytes)
        monitor ==
            IF p.output_modes # <<>> \/ p.output_preferred_mode # None
               \/ p.output_edid_lines # <<>>
            THEN Monitor(Range(p.output_modes), p.output_preferred_mode,
                         IF p.output_edid_lines # <<>> THEN edid.edid ELSE None)
            ELSE None
        configuration ==
            IF p.output_resolution # None /\ p.output_position # None
            THEN Configuration(Mode(p.output_resolution, p.output_refresh_rate),
                               p.output_position)
            ELSE None
        output == ParsedOutput(p.output_name, p.output_connected, monitor,
                               configuration, p.output_primary)
    IN  IF p.output_name = "" THEN Continues(p)
        ELSE IF p.output_edid_lines # <<>> /\ ~raw.ok THEN Raised(raw.error)
        ELSE IF p.output_edid_lines # <<>> /\ ~edid.ok THEN Raised(edid.error)
        ELSE Continues(clear_output([p EXCEPT !.outputs = Append(@, output)]))

\* Mutant of modes_line: a preferred mode already set is kept.
modes_line_first_preferred(p, l) ==
    LET edid_resolution == Resolution(l.width, l.height)
        currents == {i \in DOMAIN l.rates : l.rates[i].current}
        preferreds == {i \in DOMAIN l.rates : l.rates[i].preferred}
        last(S) == CHOOSE i \in S : \A j \in S : j <= i
    IN  IF p.output_name = ""
        THEN Raised("AssertionError: Resolution line matched, but no current output")
        ELSE Continues(
                 [p EXCEPT
                    !.output_modes =
                        @ \o [i \in DOMAIN l.rates |->
                                 Mode(edid_resolution, l.rates[i].rate)],
                    !.output_refresh_rate =
                        IF currents = {} THEN @ ELSE l.rates[last(currents)].rate,
                    !.output_preferred_mode =
                        IF preferreds = {} \/ @ # None THEN @
                        ELSE Mode(edid_resolution, l.rates[last(preferreds)].rate)])

\* Lines 452-473: a line of supported modes
modes_line(p, l) ==
    LET edid_resolution == Resolution(l.width, l.height)
        currents == {i \in DOMAIN l.rates : l.rates[i].current}
        preferreds == {i \in DOMAIN l.rates : l.rates[i].preferred}
        last(S) == CHOOSE i \in S : \A j \in S : j <= i
    IN  IF p.output_name = ""
        THEN Raised("AssertionError: Resolution line matched, but no current output")
        ELSE Continues(
                 [p EXCEPT
                    !.output_modes =
                        @ \o [i \in DOMAIN l.rates |->
                                 Mode(edid_resolution, l.rates[i].rate)],
                    !.output_refresh_rate =
                        IF currents = {} THEN @ ELSE l.rates[last(currents)].rate,
                    !.output_preferred_mode =
                        IF preferreds = {} THEN @
                        ELSE Mode(edid_resolution, l.rates[last(preferreds)].rate)])

\* Mutant of screen_line: a later screen header replaces the earlier one.
screen_line_last_wins(p, l) ==
    LET flushed == add_pending_output(p)
    IN  IF ~flushed.ok THEN flushed
        ELSE Continues([flushed.parser EXCEPT
                           !.screen_name = l.name,
                           !.combined_resolution = Resolution(l.width, l.height)])

\* Lines 474-484: a screen header
screen_line(p, l) ==
    LET flushed == add_pending_output(p)
    IN  IF ~flushed.ok THEN flushed
        ELSE IF flushed.parser.screen_name # ""
        THEN Raised("AssertionError: multiple screens!")
        ELSE Continues([flushed.parser EXCEPT
                           !.screen_name = l.name,
                           !.combined_resolution = Resolution(l.width, l.height)])

\* Lines 485-498: an output header
output_line(p, l) ==
    LET flushed == add_pending_output(p)
        named == [flushed.parser EXCEPT
                     !.output_name = l.name,
                     !.output_connected = (l.state = "connected"),
                     !.output_primary = l.primary]
    IN  IF ~flushed.ok THEN flushed
        ELSE IF l.geometry # None
        THEN Continues([named EXCEPT
                           !.output_resolution =
                               Resolution(l.geometry.width, l.geometry.height),
                           !.output_position =
                               Position(l.geometry.x, l.geometry.y)])
        ELSE Continues(named)

\* Lines 452-500: a line outside the EDID section
plain_line(p, l) ==
    CASE l.kind = "modes" -> modes_line(p, l)
      [] l.kind = "screen" -> screen_line(p, l)
      [] l.kind = "output" -> output_line(p, l)
      [] OTHER -> Continues(p)

\* CLITool.invoke returns stdout.strip() (cli_tool.py line 38): strip()
\* removes the whitespace before the first visible character of the output,
\* so the first line that is not blank comes without its indentation.  There
\* a mode line, the EDID marker and a hex line, whose patterns begin with
\* ^\s+, no longer match them: the text of a mode line that goes on with a
\* connection state matches _OUTPUT_PATTERN, any other matches no pattern.
\* A screen header or an output header that xrandr printed indented matches
\* its pattern there, which begins with ^Screen or ^\S.  On any later line
\* the indentation stays and an indented header matches no pattern.  The
\* whitespace strip() removes from the end of the last line is whitespace
\* every pattern allows.
stripped(l, first) ==
    IF first
    THEN CASE l.kind = "modes" ->
                  IF "header" \in DOMAIN l THEN l.header ELSE OtherLine
           [] l.kind \in {"edid", "hex"} -> OtherLine
           [] l.kind = "indented" -> l.line
           [] OTHER -> l
    ELSE IF l.kind = "indented" THEN OtherLine ELSE l

\* self.tool.invoke(["--prop"]).splitlines() (line 441) when xrandr printed
\* the lines `printed`: strip() removes the blank lines at the top and at the
\* end of the output, which are no lines of the loop, and the indentation of
\* the first line left.
lines_read(printed) ==
    LET visible == {i \in DOMAIN printed : printed[i].kind # "blank"}
        first == CHOOSE i \in visible : \A j \in visible : i <= j
        last == CHOOSE i \in visible : \A j \in visible : j <= i
    IN  IF visible = {} THEN <<>>
        ELSE [i \in 1..(last - first + 1) |->
                 stripped(printed[first + i - 1], i = 1)]

\* Lines 441-500: the body of the loop, for the line l
read_line(p, l) ==
    IF l.kind = "edid" THEN Continues([p EXCEPT !.in_section = "edid"])
    ELSE IF p.in_section = "edid"
    THEN IF l.kind = "hex"
         THEN Continues([p EXCEPT !.output_edid_lines = Append(@, l.hex)])
         ELSE plain_line([p EXCEPT !.in_section = ""], l)
    ELSE plain_line(p, l)

\* Mutant of end_of_report: the open output is not flushed.
end_of_report_no_flush(p) ==
    IF p.screen_name = "" \/ p.combined_resolution = None
    THEN Raised("AssertionError: display (virtual screen) missing fields.")
    ELSE [ok |-> TRUE,
          screen |-> [name |-> p.screen_name,
                      combined_resolution |-> p.combined_resolution,
                      outputs |-> p.outputs]]

\* Lines 501-509: the end of the report: [ok |-> TRUE, screen |-> Screen] or
\* the error raised
end_of_report(p) ==
    LET flushed == add_pending_output(p)
    IN  IF ~flushed.ok THEN flushed
        ELSE IF flushed.parser.screen_name = ""
                \/ flushed.parser.combined_resolution = None
        THEN Raised("AssertionError: display (virtual screen) missing fields.")
        ELSE [ok |-> TRUE,
              screen |-> [name |-> flushed.parser.screen_name,
                          combined_resolution |-> flushed.parser.combined_resolution,
                          outputs |-> flushed.parser.outputs]]

-----------------------------------------------------------------------------
(* pactl.py.                                                               *)

Sink(name, monitor_source, card) ==
    [name |-> name, monitor_source_name |-> monitor_source,
     alsa_card_number |-> card]

\* int(alsa_card_number) of a decimal string
ParseInt(s) == CHOOSE n \in 0..9 : ToString(n) = s

\* PACtl.get_sinks over the JSON list `pactl -f json list sinks` printed:
\* an entry whose properties carry no alsa.card is skipped.
get_sinks(listing) ==
    LET alsa == SelectSeqIdx(listing, {i \in DOMAIN listing : listing[i].alsa_card # ""})
    IN  [i \in DOMAIN alsa |->
            Sink(alsa[i].name, alsa[i].monitor_source, ParseInt(alsa[i].alsa_card))]

\* re.compile(pattern).match(text), for patterns of literal characters,
\* "." and a starred character: a match anchored at the start of text.
RECURSIVE RegexMatch(_, _)
RegexMatch(pattern, text) ==
    LET CharMatches == text # "" /\ (SubSeq(pattern, 1, 1) = "."
                                     \/ SubSeq(pattern, 1, 1) = SubSeq(text, 1, 1))
    IN  IF pattern = "" THEN TRUE
        ELSE IF Len(pattern) >= 2 /\ SubSeq(pattern, 2, 2) = "*"
        THEN \/ RegexMatch(SubSeq(pattern, 3, Len(pattern)), text)
             \/ CharMatches /\ RegexMatch(pattern, SubSeq(text, 2, Len(text)))
        ELSE CharMatches /\ RegexMatch(SubSeq(pattern, 2, Len(pattern)),
                                       SubSeq(text, 2, Len(text)))

-----------------------------------------------------------------------------
(* output_profile.py: Settings.                                            *)

DefaultProfile(names, profile) ==
    [connected_output_names |-> names, profile_name |-> profile]

OutputState(cfg, candidate) ==
    [configuration |-> cfg, primary_candidate |-> candidate]

Profile(regexes, outputs) ==
    [pactl_sink_option_regexes |-> regexes, outputs |-> outputs]

Settings(rules, profiles) ==
    [default_profiles |-> rules, profiles |-> profiles]

Entry(k, v) == [key |-> k, value |-> v]

\* A JSON object is a record of the keys it has; a JSON number, string and
\* null read by json.load are [int |-> n], [str |-> s] and None.
HasField(object, key) == key \in DOMAIN object

\* Decimal(text) for the decimal text of a whole number of hertz
DecimalFromStr(text) == Decimal(CHOOSE n \in 0..240 : ToString(n) = text)

\* Decimal(value) of line 75: TypeError for None
DecimalOf(value) ==
    IF HasField(value, "int") THEN [ok |-> TRUE, decimal |-> Decimal(value.int)]
    ELSE IF HasField(value, "str")
    THEN [ok |-> TRUE, decimal |-> DecimalFromStr(value.str)]
    ELSE [ok |-> FALSE, error |-> "TypeError"]

\* The OutputState built by lines 67-88 from one entry of "outputs"
output_state_from_dict(output_state) ==
    OutputState(
        Configuration(
            Mode(Resolution(output_state.configuration.mode.resolution.width,
                            output_state.configuration.mode.resolution.height),
                 DecimalOf(output_state.configuration.mode.refresh_rate).decimal),
            Position(output_state.configuration.position.x,
                     output_state.configuration.position.y)),
        IF HasField(output_state, "primary_candidate")
        THEN output_state.primary_candidate ELSE FALSE)

\* The error lines 67-88 raise on one entry of "outputs", "" when none:
\* KeyError without "refresh_rate", the TypeError of Decimal(None)
output_state_error(output_state) ==
    IF ~HasField(output_state.configuration.mode, "refresh_rate")
    THEN "KeyError"
    ELSE IF ~DecimalOf(output_state.configuration.mode.refresh_rate).ok
    THEN DecimalOf(output_state.configuration.mode.refresh_rate).error
    ELSE ""

\* The order in which the comprehensions of lines 62-96 build the entries:
\* profile after profile, within a profile output after output
RECURSIVE entries_in_order(_)
entries_in_order(per_profile) ==
    IF per_profile = <<>> THEN <<>>
    ELSE Head(per_profile) \o entries_in_order(Tail(per_profile))

\* Settings.from_dict (lines 55-97): [ok |-> TRUE, settings |-> Settings] or
\* the error raised on the first entry that fails
from_dict(data) ==
    LET rules == IF HasField(data, "default_profiles")
                 THEN data.default_profiles ELSE <<>>
        profiles == IF HasField(data, "profiles") THEN data.profiles ELSE <<>>
        errors == entries_in_order([i \in DOMAIN profiles |->
                     [j \in DOMAIN profiles[i].value.outputs |->
                         output_state_error(profiles[i].value.outputs[j].value)]])
        failing == {i \in DOMAIN errors : errors[i] # ""}
    IN  IF failing # {}
        THEN [ok |-> FALSE,
              error |-> errors[CHOOSE i \in failing : \A j \in failing : i <= j]]
        ELSE [ok |-> TRUE,
              settings |->
                  Settings(
                      [i \in DOMAIN rules |->
                          DefaultProfile(rules[i].connected_output_names,
                                         rules[i].profile_name)],
                      [i \in DOMAIN profiles |->
                          Entry(profiles[i].key,
                                Profile(profiles[i].value.pactl_sink_option_regexes,
                                        [j \in DOMAIN profiles[i].value.outputs |->
                                            Entry(profiles[i].value.outputs[j].key,
                                                  output_state_from_dict(
                                                      profiles[i].value.outputs[j].value))]))])]

\* asdict of a Configuration: a dict of every dataclass; a Decimal is left as
\* it is
configuration_asdict(cfg) ==
    [mode |-> [resolution |-> [width |-> cfg.mode.resolution.width,
                               height |-> cfg.mode.resolution.height],
               refresh_rate |-> cfg.mode.refresh_rate],
     position |-> [x |-> cfg.position.x, y |-> cfg.position.y]]

\* asdict of a Profile
profile_asdict(profile) ==
    [pactl_sink_option_regexes |-> profile.pactl_sink_option_regexes,
     outputs |->
         [j \in DOMAIN profile.outputs |->
             Entry(profile.outputs[j].key,
                   [configuration |->
                        configuration_asdict(profile.outputs[j].value.configuration),
                    primary_candidate |-> profile.outputs[j].value.primary_candidate])]]

\* Settings.to_dict (lines 99-100): dataclasses.asdict(self)
to_dict(stg) ==
    [default_profiles |->
         [i \in DOMAIN stg.default_profiles |->
             [connected_output_names |-> stg.default_profiles[i].connected_output_names,
              profile_name |-> stg.default_profiles[i].profile_name]],
     profiles |->
         [i \in DOMAIN stg.profiles |->
             Entry(stg.profiles[i].key, profile_asdict(stg.profiles[i].value))]]

\* json.dump(data, handle) of line 104 with the default encoder: a Decimal
\* is not JSON serializable
json_dump(data) ==
    IF \E i \in DOMAIN data.profiles :
           \E j \in DOMAIN data.profiles[i].value.outputs :
               HasField(data.profiles[i].value.outputs[j].value.configuration.mode.refresh_rate,
                        "dec")
    THEN [ok |-> FALSE, error |-> "TypeError"]
    ELSE [ok |-> TRUE, document |-> data]

\* Settings.to_json (lines 102-104)
to_json(stg) == json_dump(to_dict(stg))

\* Profile.primary_output_name
\* Mutant of primary_output_name: the first declared output, whether or not
\* another one is a primary candidate.
primary_output_name_first_declared(profile) ==
    IF profile.outputs # <<>>
    THEN profile.outputs[1].key
    ELSE ""

primary_output_name(profile) ==
    IF profile.outputs # <<>>
    THEN LET candidates == {i \in DOMAIN profile.outputs :
                                profile.outputs[i].value.primary_candidate}
         IN  IF candidates # {}
             THEN profile.outputs[CHOOSE i \in candidates :
                                      \A j \in candidates : i <= j].key
             ELSE profile.outputs[1].key
    ELSE ""

\* Mutant of MaxByLen: the first name, whatever its length.
first_name(names) == names[1]

\* max(names, key=len) of a non-empty list: the first of the longest names
MaxByLen(names) ==
    names[CHOOSE i \in DOMAIN names :
              /\ \A j \in DOMAIN names : Len(names[j]) <= Len(names[i])
              /\ \A j \in 1..(i - 1) : Len(names[j]) < Len(names[i])]

\* Mutant of rule_matches: the rule's outputs are exactly the connected ones.
rule_matches_exactly(required, connected) == required = connected

\* Line 165-166: the rule's outputs are all connected
rule_matches(required, connected) == required \subseteq connected

\* ProfileSelector._get_default_profile
get_default_profile(stg, scr) ==
    LET connected == Range(connected_output_names(scr))
        rules == stg.default_profiles
        matching == SelectSeqIdx(rules,
                        {i \in DOMAIN rules :
                             rule_matches(Range(rules[i].connected_output_names),
                                          connected)})
        best_match == MaxByLen([i \in DOMAIN matching |-> matching[i].profile_name])
    IN  \* max(..., default=None), then `if not best_match`
        IF matching = <<>> \/ best_match = "" THEN "" ELSE best_match

\* Mutant of profile_matches: the profile's outputs are among the active ones.
profile_matches_subset(keys, active) == keys \subseteq active

\* Line 184: the profile's outputs are exactly the active outputs
profile_matches(keys, active) == keys = active

\* ProfileSelector._get_current_profile
get_current_profile(stg, scr) ==
    LET active == Range(active_output_names(scr))
        profiles == stg.profiles
        matching == SelectSeqIdx(profiles,
                        {i \in DOMAIN profiles :
                             profile_matches(Range(Keys(profiles[i].value.outputs)),
                                             active)})
        match == MaxByLen(Keys(matching))
    IN  \* max(..., default=None), then `if not match`
        IF matching = <<>> \/ match = "" THEN "" ELSE match

\* ProfileSelector._get_candidate_pactl_sinks: every list the method can
\* return.  remaining_sinks is a Python set of Sink, iterated in hash order,
\* so which matching sink a pattern takes is not determined by the program.
RECURSIVE FilteredSinks(_, _)
FilteredSinks(regexes, remaining) ==
    IF regexes = <<>> THEN {<<>>}
    ELSE LET matching == {sink \in remaining : RegexMatch(regexes[1], sink.name)}
         IN  IF matching = {} THEN FilteredSinks(Tail(regexes), remaining)
             ELSE UNION {{<<sink>> \o rest :
                              rest \in FilteredSinks(Tail(regexes), remaining \ {sink})} :
                         sink \in matching}

get_candidate_pactl_sinks(stg, current, listing) ==
    LET candidate_sinks == get_sinks(listing)
        regexes == IF current # ""
                   THEN Get(stg.profiles, current).pactl_sink_option_regexes
                   ELSE <<>>
    IN  IF regexes # <<>>
        THEN {IF filtered # <<>> THEN filtered ELSE candidate_sinks :
                  filtered \in FilteredSinks(regexes, Range(candidate_sinks))}
        ELSE {candidate_sinks}

\* Mutant of profile_order: the passed name is left out and the others keep
\* their declared order, the walk starting at the first of them.
profile_order_declared(profile_names, name) ==
    LET index == IndexOf(profile_names, name)
    IN  IF name # ""
        THEN SubSeq(profile_names, 1, index - 1)
             \o SubSeq(profile_names, index + 1, Len(profile_names))
        ELSE profile_names

\* Lines 252-258: the order of profiles to check, ignoring the passed one
profile_order(profile_names, name) ==
    LET index == IndexOf(profile_names, name)
    IN  IF name # ""
        THEN SubSeq(profile_names, index + 1, Len(profile_names))
             \o SubSeq(profile_names, 1, index - 1)
        ELSE profile_names

\* ProfileSelector.next_valid_profile(name): the name returned ("" for none);
\* list.index raises ValueError for a name that is no profile.
next_valid_profile(stg, scr, current, given) ==
    LET name == IF given = "" THEN current ELSE given
        profile_list == profile_order(Keys(stg.profiles), name)
        connected == Range(connected_output_names(scr))
        valid == {i \in DOMAIN profile_list :
                      Range(Keys(Get(stg.profiles, profile_list[i]).outputs))
                          \subseteq connected}
    IN  IF name # "" /\ ~HasKey(stg.profiles, name)
        THEN [ok |-> FALSE, error |-> "ValueError"]
        ELSE IF valid # {}
        THEN [ok |-> TRUE,
              value |-> profile_list[CHOOSE i \in valid : \A j \in valid : i <= j]]
        ELSE [ok |-> TRUE, value |-> ""]

-----------------------------------------------------------------------------
(* The external tools, as the engine sees them.                            *)

\* CLITool.invoke(arguments) of the tool named `tool`
Call(tool, args) == [tool |-> tool, args |-> args]

\* The values the configuration tool reads back from its arguments.
Resolutions == {Resolution(1920, 1080), Resolution(2560, 1440)}

Positions == {Position(0, 0), Position(1920, 0)}

Rates == {0, 60}

ParseResolution(s) == CHOOSE r \in Resolutions : ResolutionStr(r) = s

ParsePosition(s) == CHOOSE q \in Positions : to_cli_str(q) = s

ParseDecimal(s) == Decimal(CHOOSE n \in Rates : ToString(n) = s)

\* xrandr carrying out an argument list on the outputs `disp`; `cur` is the
\* index of the output the last --output named.
RECURSIVE XRandrExec(_, _, _)
XRandrExec(disp, cli, cur) ==
    IF cli = <<>> THEN disp
    ELSE LET flag == cli[1]
             rest1 == SubSeq(cli, 2, Len(cli))
             rest2 == SubSeq(cli, 3, Len(cli))
             old == disp[cur].configuration
         IN  CASE flag = "--output" ->
                    XRandrExec(disp, rest2,
                               CHOOSE i \in DOMAIN disp : disp[i].name = cli[2])
               [] flag = "--off" ->
                    XRandrExec([disp EXCEPT ![cur].configuration = None], rest1, cur)
               [] flag = "--mode" ->
                    XRandrExec([disp EXCEPT ![cur].configuration =
                                    Configuration(Mode(ParseResolution(cli[2]), None),
                                                  IF old = None THEN Position(0, 0)
                                                  ELSE old.position)],
                               rest2, cur)
               [] flag = "--rate" ->
                    XRandrExec([disp EXCEPT ![cur].configuration.mode.refresh_rate =
                                    ParseDecimal(cli[2])],
                               rest2, cur)
               [] flag = "--pos" ->
                    XRandrExec([disp EXCEPT ![cur].configuration.position =
                                    ParsePosition(cli[2])],
                               rest2, cur)
               [] flag = "--primary" ->
                    XRandrExec([i \in DOMAIN disp |->
                                    [disp[i] EXCEPT !.primary = (i = cur)]],
                               rest1, cur)

\* XRandr.screen(): the snapshot parsed from the report of the outputs `disp`
Screen(disp) ==
    [name |-> "0", combined_resolution |-> Resolution(4480, 1440), outputs |-> disp]

-----------------------------------------------------------------------------
(* ProfileSelector.apply_profile.                                          *)

\* Mutant of output_arguments: an output the profile leaves out is not
\* turned off.
output_arguments_no_off(output_name, profile, new_primary_output_name) ==
    LET output_state == Get(profile.outputs, output_name)
        mode == output_state.configuration.mode
    IN  IF HasKey(profile.outputs, output_name)
        THEN <<"--output", output_name, "--mode", ResolutionStr(mode.resolution)>>
             \o (IF Truthy(mode.refresh_rate)
                 THEN <<"--rate", DecimalStr(mode.refresh_rate)>>
                 ELSE <<>>)
             \o <<"--pos", to_cli_str(output_state.configuration.position)>>
             \o (IF output_name = new_primary_output_name
                 THEN <<"--primary">>
                 ELSE <<>>)
        ELSE <<>>

\* Lines 280-304: the arguments for one connected output
output_arguments(output_name, profile, new_primary_output_name) ==
    LET output_state == Get(profile.outputs, output_name)
        mode == output_state.configuration.mode
    IN  IF HasKey(profile.outputs, output_name)
        THEN <<"--output", output_name, "--mode", ResolutionStr(mode.resolution)>>
             \o (IF Truthy(mode.refresh_rate)
                 THEN <<"--rate", DecimalStr(mode.refresh_rate)>>
                 ELSE <<>>)
             \o <<"--pos", to_cli_str(output_state.configuration.position)>>
             \o (IF output_name = new_primary_output_name
                 THEN <<"--primary">>
                 ELSE <<>>)
        ELSE <<"--output", output_name, "--off">>

\* Lines 279-304: the argument list for the connected outputs `names`
RECURSIVE xrandr_cli(_, _, _)
xrandr_cli(names, profile, new_primary_output_name) ==
    IF names = <<>> THEN <<>>
    ELSE output_arguments(names[1], profile, new_primary_output_name)
         \o xrandr_cli(Tail(names), profile, new_primary_output_name)

\* Mutant of any_output: the check of line 305 never fires.
any_output_unchecked(names, profile) == TRUE

\* Lines 278-305: any_output
any_output(names, profile) == \E i \in DOMAIN names : HasKey(profile.outputs, names[i])

\* XProp.root_window_id's invocation
XPropCall == Call("xprop", <<"-root", "-notype", "_NET_WORKAREA", "_XROOTPMAP_ID">>)

\* PACtl.get_sinks's invocation
ListSinksCall == Call("pactl", <<"-f", "json", "list", "sinks">>)

\* The invocation that fails (non-zero exit) during one operation, if any.
FailPoints == {"none", "xprop", "xrandr", "pactl_list", "pactl_set",
               "on_change", "on_primary"}

\* Mutant of raises: a non-zero exit is ignored.
never_raises(fail, point) == FALSE

\* Mutant of chosen_sink: the last matched sink.
chosen_sink_last(matched_sinks) == matched_sinks[Len(matched_sinks)]

\* Mutant of already_current: the profile is applied again.
never_current(current, name) == FALSE

\* CLITool.invoke raising RuntimeError: the invocation `point` is the one
\* that exits non-zero.
raises(fail, point) == fail = point

\* Lines 320-322: the sink made default, of the sinks a pattern matched
chosen_sink(matched_sinks) == matched_sinks[1]

\* Line 269: the profile asked for is the current one
already_current(current, name) == current = name

\* Lines 312-325: the sink patterns tried in order against `listing`.
RECURSIVE select_sink(_, _, _)
select_sink(regexes, listing, fail) ==
    IF regexes = <<>> THEN [calls |-> <<>>, chosen |-> "", raised |-> FALSE]
    ELSE IF raises(fail, "pactl_list")
    THEN [calls |-> <<ListSinksCall>>, chosen |-> "", raised |-> TRUE]
    ELSE LET all == get_sinks(listing)
             matched_sinks == SelectSeqIdx(all,
                                  {i \in DOMAIN all : RegexMatch(regexes[1], all[i].name)})
             sink == chosen_sink(matched_sinks).name
             rest == select_sink(Tail(regexes), listing, fail)
         IN  IF matched_sinks # <<>>
             THEN [calls |-> <<ListSinksCall, Call("pactl", <<"set-default-sink", sink>>)>>,
                   chosen |-> IF raises(fail, "pactl_set") THEN "" ELSE sink,
                   raised |-> raises(fail, "pactl_set")]
             ELSE [rest EXCEPT !.calls = <<ListSinksCall>> \o rest.calls]

\* Lines 329-330
delay_ms == 100

remaining_ms == 5000

\* Mutant of settle_polls: a new root window id does not end the polling.
RECURSIVE settle_polls_no_break(_, _, _)
settle_polls_no_break(remaining, k, settle) ==
    IF remaining > 0
    THEN <<XPropCall>> \o settle_polls_no_break(remaining - delay_ms, k + 1, settle)
    ELSE <<>>

\* Lines 331-337: the polls of the root window id; the k-th poll sees a new
\* id when k = settle (settle = 0: the id never changes).
RECURSIVE settle_polls(_, _, _)
settle_polls(remaining, k, settle) ==
    IF remaining > 0
    THEN IF k = settle THEN <<XPropCall>>
         ELSE <<XPropCall>> \o settle_polls(remaining - delay_ms, k + 1, settle)
    ELSE <<>>

\* Line 306
NoOutputEnabled == "AssertionError: no output would have been enabled!"

\* Mutant of apply_profile: the profile-changed hook runs before the settle
\* polling.
apply_profile_hook_first(stg, scr, current, name, disp, listing, sink, on_change_exists, on_primary_exists, settle, fail) ==
    LET unchanged(calls_made, how) ==
            [calls |-> calls_made, outcome |-> how, display |-> disp,
             default_sink |-> sink]
        profile == Get(stg.profiles, name)
        primary == primary_output(scr)
        primary_name == primary.output.name
        new_primary_output_name == primary_output_name(profile)
        names == connected_output_names(scr)
        cli == xrandr_cli(names, profile, new_primary_output_name)
        configure == Call("xrandr", cli)
        selection == select_sink(profile.pactl_sink_option_regexes, listing, fail)
        new_sink == IF selection.chosen # "" THEN selection.chosen ELSE sink
        new_display == XRandrExec(disp, cli, 0)
        configured == <<XPropCall, configure>> \o selection.calls
        changed(calls_made, how) ==
            [calls |-> calls_made, outcome |-> how, display |-> new_display,
             default_sink |-> new_sink]
        on_change == Call("on-output-profile-change", <<name>>)
        settled == IF on_change_exists
                   THEN configured \o <<on_change>>
                        \o settle_polls(remaining_ms, 1, settle)
                   ELSE configured
        primary_hook == primary_name # new_primary_output_name /\ on_primary_exists
        on_primary == Call("on-primary-output-change", <<new_primary_output_name>>)
    IN  IF already_current(current, name) THEN unchanged(<<>>, "ok")
        ELSE IF ~HasKey(stg.profiles, name) THEN unchanged(<<>>, "KeyError")
        ELSE IF ~primary.ok THEN unchanged(<<>>, primary.error)
        ELSE IF ~any_output(names, profile) THEN unchanged(<<>>, NoOutputEnabled)
        ELSE IF raises(fail, "xprop") THEN unchanged(<<XPropCall>>, "RuntimeError")
        ELSE IF raises(fail, "xrandr")
        THEN unchanged(<<XPropCall, configure>>, "RuntimeError")
        ELSE IF selection.raised THEN changed(configured, "RuntimeError")
        ELSE IF on_change_exists /\ raises(fail, "on_change")
        THEN changed(settled, "RuntimeError")
        ELSE IF primary_hook
        THEN changed(Append(settled, on_primary),
                     IF raises(fail, "on_primary") THEN "RuntimeError" ELSE "ok")
        ELSE changed(settled, "ok")

\* ProfileSelector.apply_profile(name) on the held state, in an environment
\* where the hook scripts exist or not, the root window id settles at poll
\* `settle` and the invocation `fail` exits non-zero.  The result: the
\* invocations made in order, how the call ended, and the outputs and the
\* default sink afterwards.
apply_profile(stg, scr, current, name, disp, listing, sink, on_change_exists, on_primary_exists, settle, fail) ==
    LET unchanged(calls_made, how) ==
            [calls |-> calls_made, outcome |-> how, display |-> disp,
             default_sink |-> sink]
        profile == Get(stg.profiles, name)
        primary == primary_output(scr)
        primary_name == primary.output.name
        new_primary_output_name == primary_output_name(profile)
        names == connected_output_names(scr)
        cli == xrandr_cli(names, profile, new_primary_output_name)
        configure == Call("xrandr", cli)
        selection == select_sink(profile.pactl_sink_option_regexes, listing, fail)
        new_sink == IF selection.chosen # "" THEN selection.chosen ELSE sink
        new_display == XRandrExec(disp, cli, 0)
        configured == <<XPropCall, configure>> \o selection.calls
        changed(calls_made, how) ==
            [calls |-> calls_made, outcome |-> how, display |-> new_display,
             default_sink |-> new_sink]
        on_change == Call("on-output-profile-change", <<name>>)
        settled == IF on_change_exists
                   THEN configured \o settle_polls(remaining_ms, 1, settle)
                        \o <<on_change>>
                   ELSE configured
        primary_hook == primary_name # new_primary_output_name /\ on_primary_exists
        on_primary == Call("on-primary-output-change", <<new_primary_output_name>>)
    IN  IF already_current(current, name) THEN unchanged(<<>>, "ok")
        ELSE IF ~HasKey(stg.profiles, name) THEN unchanged(<<>>, "KeyError")
        ELSE IF ~primary.ok THEN unchanged(<<>>, primary.error)
        ELSE IF ~any_output(names, profile) THEN unchanged(<<>>, NoOutputEnabled)
        ELSE IF raises(fail, "xprop") THEN unchanged(<<XPropCall>>, "RuntimeError")
        ELSE IF raises(fail, "xrandr")
        THEN unchanged(<<XPropCall, configure>>, "RuntimeError")
        ELSE IF selection.raised THEN changed(configured, "RuntimeError")
        ELSE IF on_change_exists /\ raises(fail, "on_change")
        THEN changed(settled, "RuntimeError")
        ELSE IF primary_hook
        THEN changed(Append(settled, on_primary),
                     IF raises(fail, "on_primary") THEN "RuntimeError" ELSE "ok")
        ELSE changed(settled, "ok")

-----------------------------------------------------------------------------
(* ProfileSelector.cycle_pactl_sink and cycle_primary_output.              *)

\* PACtl.get_default_sink_name's invocation
GetDefaultSinkCall == Call("pactl", <<"get-default-sink">>)

\* Mutant of rotated_from: the list is rotated to start at the current name.
rotated_to(sink_names, current_sink_name) ==
    IF current_sink_name \in Range(sink_names)
    THEN LET index == IndexOf(sink_names, current_sink_name)
         IN  SubSeq(sink_names, index, Len(sink_names))
             \o SubSeq(sink_names, 1, index - 1)
    ELSE sink_names

\* Lines 216-220: the names after the current one, then those before it;
\* the whole list when the current name is not in it (ValueError, passed)
rotated_from(sink_names, current_sink_name) ==
    IF current_sink_name \in Range(sink_names)
    THEN LET index == IndexOf(sink_names, current_sink_name)
         IN  SubSeq(sink_names, index + 1, Len(sink_names))
             \o SubSeq(sink_names, 1, index - 1)
    ELSE sink_names

\* ProfileSelector.cycle_pactl_sink() (lines 213-225) on the held candidate
\* sinks, with `sink` PulseAudio's default sink
cycle_pactl_sink(candidates, sink, fail) ==
    LET sink_names == rotated_from([i \in DOMAIN candidates |-> candidates[i].name], sink)
        set == Call("pactl", <<"set-default-sink", sink_names[1]>>)
    IN  IF raises(fail, "pactl_get")
        THEN [calls |-> <<GetDefaultSinkCall>>, outcome |-> "RuntimeError",
              result |-> "", default_sink |-> sink]
        ELSE IF sink_names = <<>>
        THEN [calls |-> <<GetDefaultSinkCall>>, outcome |-> "ok",
              result |-> "", default_sink |-> sink]
        ELSE IF raises(fail, "pactl_set")
        THEN [calls |-> <<GetDefaultSinkCall, set>>, outcome |-> "RuntimeError",
              result |-> "", default_sink |-> sink]
        ELSE [calls |-> <<GetDefaultSinkCall, set>>, outcome |-> "ok",
              result |-> sink_names[1], default_sink |-> sink_names[1]]

\* PACtl.cycle_default_sink() (pactl.py lines 95-110) with `listing` what
\* pactl lists and `sink` PulseAudio's default sink: the ALSA sink after the
\* default one in the whole listing, the first when the default is not
\* among them; with no ALSA sink the modulo of line 106 divides by zero.
cycle_default_sink(listing, sink, fail) ==
    LET listed == get_sinks(listing)
        names == [i \in DOMAIN listed |-> listed[i].name]
        selected_index == IF sink \in Range(names) THEN IndexOf(names, sink) - 1
                          ELSE -1
        next_sink == names[((selected_index + 1) % Len(names)) + 1]
        set == Call("pactl", <<"set-default-sink", next_sink>>)
    IN  IF raises(fail, "pactl_list")
        THEN [calls |-> <<ListSinksCall>>, outcome |-> "RuntimeError",
              default_sink |-> sink]
        ELSE IF raises(fail, "pactl_get")
        THEN [calls |-> <<ListSinksCall, GetDefaultSinkCall>>,
              outcome |-> "RuntimeError", default_sink |-> sink]
        ELSE IF listed = <<>>
        THEN [calls |-> <<ListSinksCall, GetDefaultSinkCall>>,
              outcome |-> "ZeroDivisionError", default_sink |-> sink]
        ELSE IF raises(fail, "pactl_set")
        THEN [calls |-> <<ListSinksCall, GetDefaultSinkCall, set>>,
              outcome |-> "RuntimeError", default_sink |-> sink]
        ELSE [calls |-> <<ListSinksCall, GetDefaultSinkCall, set>>,
              outcome |-> "ok", default_sink |-> next_sink]

\* Lines 228-237: the outputs the primary output is cycled among
candidate_outputs(stg, scr, current) ==
    LET outputs == IF current # "" THEN Get(stg.profiles, current).outputs ELSE <<>>
        flagged == SelectSeqIdx(Keys(outputs),
                                {i \in DOMAIN outputs : outputs[i].value.primary_candidate})
    IN  IF flagged # <<>> THEN flagged ELSE active_output_names(scr)

\* ProfileSelector.cycle_primary_output() (lines 227-245) on the held state
cycle_primary_output(stg, scr, current, disp, on_primary_exists, fail) ==
    LET candidates == candidate_outputs(stg, scr, current)
        primary == primary_output(scr)
        current_primary_name == primary.output.name
        next_current_primary_name ==
            candidates[((IndexOf(candidates, current_primary_name) - 1 + 1)
                        % Len(candidates)) + 1]
        set_primary == Call("xrandr", <<"--output", next_current_primary_name, "--primary">>)
        on_primary == Call("on-primary-output-change", <<next_current_primary_name>>)
        ended(calls_made, how, value, outputs) ==
            [calls |-> calls_made, outcome |-> how, result |-> value,
             display |-> outputs]
        new_display == XRandrExec(disp, set_primary.args, 0)
    IN  IF ~primary.ok THEN ended(<<>>, primary.error, "", disp)
        ELSE IF current_primary_name \notin Range(candidates)
        THEN ended(<<>>, "ValueError", "", disp)
        ELSE IF raises(fail, "xrandr")
        THEN ended(<<set_primary>>, "RuntimeError", "", disp)
        ELSE IF current_primary_name # next_current_primary_name /\ on_primary_exists
        THEN IF raises(fail, "on_primary")
             THEN ended(<<set_primary, on_primary>>, "RuntimeError", "", new_display)
             ELSE ended(<<set_primary, on_primary>>, "ok",
                        next_current_primary_name, new_display)
        ELSE ended(<<set_primary>>, "ok", next_current_primary_name, new_display)

-----------------------------------------------------------------------------
(* output_profile.py: main.                                                *)

\* The options of the mutually exclusive, required group (lines 350-396);
\* argparse admits exactly one of them per invocation.
Options ==
    {"state", "list", "default_profile", "cycle_profile", "cycle_primary",
     "cycle_pactl_sink", "profile", "get_current_profile", "primary_resolution"}

\* ProfileSelector(settings).__post_init__: update_state's two invocations
ConstructorCalls == <<Call("xrandr", <<"--prop">>), ListSinksCall>>

\* Lines 414-425: the branch `elif args.cycle_profile:` and the profile it
\* chooses; the tests of args.default_profile and args.profile lie inside
\* it, where the group has left both unset.
profile_operation(option, name, default, next) ==
    IF option = "cycle_profile"
    THEN [reached |-> TRUE, next_profile |-> next]
    ELSE [reached |-> FALSE, next_profile |-> ""]

\* main(argv) (lines 345-430) for one option of the group, with `name` the
\* value of --profile, on the state ProfileSelector(settings) has computed.
\* An exception main does not catch ends the process with status 1
\* (sys.exit(main()), line 434).
main(option, name, stg, scr, current, default, candidates, disp, listing, sink, env) ==
    LET ended(calls_made, how, code, printed, outputs, new_sink) ==
            [calls |-> calls_made, outcome |-> how, exit_code |-> code,
             stdout |-> printed, display |-> outputs, default_sink |-> new_sink]
        returned(calls_made, printed) ==
            ended(calls_made, "ok", 0, printed, disp, sink)
        primary == primary_output(Screen(disp))
        next == next_valid_profile(stg, scr, current, "")
        chosen == profile_operation(option, name, default,
                                    IF next.ok THEN next.value ELSE "")
        applied == apply_profile(stg, scr, current, chosen.next_profile, disp,
                                 listing, sink, env.on_change_exists,
                                 env.on_primary_exists, env.settle, env.fail)
        primary_cycled == cycle_primary_output(stg, scr, current, disp,
                                               env.on_primary_exists, env.fail)
        sink_cycled == cycle_pactl_sink(candidates, sink, env.fail)
        finished(run, outputs, new_sink) ==
            ended(ConstructorCalls \o run.calls, run.outcome,
                  IF run.outcome = "ok" THEN 0 ELSE 1, <<>>, outputs, new_sink)
    IN  IF option = "state"
        THEN returned(<<Call("xrandr", <<"--prop">>)>>, <<Screen(disp)>>)
        ELSE IF option = "primary_resolution"
        THEN IF ~primary.ok
             THEN ended(<<Call("xrandr", <<"--prop">>)>>, primary.error, 1, <<>>,
                        disp, sink)
             ELSE returned(<<Call("xrandr", <<"--prop">>)>>,
                           IF primary.output.configuration # None
                           THEN <<ResolutionStr(primary.output.configuration.mode.resolution)>>
                           ELSE <<>>)
        ELSE IF option = "list" THEN returned(ConstructorCalls, Keys(stg.profiles))
        ELSE IF option = "get_current_profile"
        THEN returned(ConstructorCalls, <<current>>)
        ELSE IF option = "cycle_primary"
        THEN finished(primary_cycled, primary_cycled.display, sink)
        ELSE IF chosen.reached
        THEN IF option = "cycle_profile" /\ ~next.ok
             THEN ended(ConstructorCalls, next.error, 1, <<>>, disp, sink)
             ELSE IF chosen.next_profile # ""
             THEN finished(applied, applied.display, applied.default_sink)
             ELSE ended(ConstructorCalls, "ok", 1, <<>>, disp, sink)
        ELSE IF option = "cycle_pactl_sink"
        THEN finished(sink_cycled, disp, sink_cycled.default_sink)
        ELSE returned(ConstructorCalls, <<>>)

-----------------------------------------------------------------------------
(* battery_monitor.py: BatteryMonitor.                                     *)

\* Python's max and min of two integers
Max(a, b) == IF a >= b THEN a ELSE b

Min(a, b) == IF a <= b THEN a ELSE b

\* clamp_percent(percent) (lines 109-110)
clamp_percent(percent) == Max(0, Min(percent, 100))

\* BatteryMonitor._get_render_category (lines 145-146)
get_render_category(capacity) == capacity \div 5

\* BatteryMonitor._get_level (lines 148-155)
get_level(capacity) ==
    IF capacity > 90 THEN [name |-> "HIGH", icon |-> "battery-full"]
    ELSE IF capacity > 50 THEN [name |-> "GOOD", icon |-> "battery-good"]
    ELSE IF capacity > 10 THEN [name |-> "LOW", icon |-> "battery-low"]
    ELSE [name |-> "CAUTION", icon |-> "battery-caution"]

\* BatteryMonitor._render_pixbuf(percent, connected) (lines 273-332): with
\* the style fixed, the image is determined by the clamped percentage, which
\* sets the height and the colour of the filling, and by connected, which
\* sets the colour of the border.
render_pixbuf(percent, connected) ==
    [percent |-> clamp_percent(percent), connected |-> connected]

\* BatteryMonitor.update() (lines 209-271) of the monitor `held` with the
\* status icon `status_icon`, the battery reading `reading`: the monitor, the
\* status icon and the notification sent afterwards.
update(held, status_icon, reading) ==
    LET old_render_category == get_render_category(held.capacity)
        old_level == get_level(held.capacity)
        old_capacity == held.capacity
        capacity == clamp_percent(reading.capacity)
        render_category == get_render_category(capacity)
        level == get_level(capacity)
        old_connected == held.connected
        connected == \/ reading.status \in {"Charging", "Full"}
                     \/ (reading.status = "Not charging" /\ capacity > 75)
        capacity_changed == capacity # old_capacity
        connected_changed == connected # old_connected
        set_new_state == capacity_changed \/ connected_changed
        set_new_icon ==
            \/ (capacity_changed /\ render_category # old_render_category)
            \/ connected_changed
        send_notification ==
            \/ /\ capacity_changed
               /\ level # old_level
               /\ (old_capacity = 0 \/ Max(old_capacity, capacity) # 100)
            \/ connected_changed
        state_text == "Charge: " \o ToString(capacity) \o "%\nPower: "
                          \o (IF connected THEN "" ELSE "dis") \o "connected"
    IN  [monitor |-> [exists |-> TRUE, capacity |-> capacity,
                      connected |-> connected],
         tray |-> [pixbuf |-> IF set_new_icon
                              THEN render_pixbuf(capacity, connected)
                              ELSE status_icon.pixbuf,
                   tooltip |-> IF set_new_state THEN state_text
                               ELSE status_icon.tooltip],
         notification |-> IF send_notification
                          THEN [application_name |-> "battery-monitor",
                                icon |-> level.icon,
                                title |-> "Battery Level - " \o level.name,
                                body |-> state_text]
                          ELSE None]

-----------------------------------------------------------------------------
(* The inputs the model draws from.                                        *)

OutputNames == <<"eDP1", "HDMI1">>

LaptopPanel == Configuration(Mode(Resolution(1920, 1080), Decimal(60)), Position(0, 0))

ExternalRight == Configuration(Mode(Resolution(2560, 1440), None), Position(1920, 0))

ExternalAlone == Configuration(Mode(Resolution(1920, 1080), Decimal(0)), Position(0, 0))

\* Profiles a settings document may declare, as [key |-> name, value |-> Profile].
ProfileCatalogue ==
    { Entry("laptop", Profile(<<>>,
                <<Entry("eDP1", OutputState(LaptopPanel, FALSE))>>)),
      Entry("dual", Profile(<<"hdmi", "alsa">>,
                <<Entry("eDP1", OutputState(LaptopPanel, FALSE)),
                  Entry("HDMI1", OutputState(ExternalRight, TRUE))>>)),
      Entry("tv", Profile(<<"alsa.*hdmi">>,
                <<Entry("HDMI1", OutputState(ExternalAlone, TRUE))>>)),
      Entry("hd", Profile(<<"bluez">>,
                <<Entry("HDMI1", OutputState(ExternalRight, FALSE))>>)),
      Entry("hdmi", Profile(<<"alsa">>,
                <<Entry("HDMI1", OutputState(ExternalRight, FALSE))>>)) }

DefaultProfileCatalogue ==
    { DefaultProfile(<<"eDP1">>, "laptop"),
      DefaultProfile(<<"eDP1", "HDMI1">>, "dual"),
      DefaultProfile(<<>>, "tv") }

\* The sequences of at most n distinct elements of S.
RECURSIVE Arrangements(_, _)
Arrangements(S, n) ==
    IF n = 0 THEN {<<>>}
    ELSE {<<>>} \cup UNION {{<<x>> \o rest : rest \in Arrangements(S \ {x}, n - 1)} :
                            x \in S}

\* Two settings of three profiles.  "wide" has two primary candidates and
\* three sink patterns of which the first matches a sink, each of them
\* matching a sink of its own; "plain" has two outputs and no primary
\* candidate, its first pattern matches no sink and both others do.  Every profile after
\* "wide", and before it, can be valid at once, and "laptop" can be the only
\* valid profile, as the last one declared.
LongDocuments ==
    LET laptop == Entry("laptop", Profile(<<>>,
                      <<Entry("eDP1", OutputState(LaptopPanel, FALSE))>>))
        tv == Entry("tv", Profile(<<"alsa.*hdmi">>,
                      <<Entry("HDMI1", OutputState(ExternalAlone, TRUE))>>))
        wide == Entry("wide", Profile(<<"alsa.*hdmi", "alsa.usb", "alsa">>,
                      <<Entry("eDP1", OutputState(LaptopPanel, TRUE)),
                        Entry("HDMI1", OutputState(ExternalRight, TRUE))>>))
        plain == Entry("plain", Profile(<<"hdmi", "alsa", "alsa.usb">>,
                      <<Entry("HDMI1", OutputState(ExternalRight, FALSE)),
                        Entry("eDP1", OutputState(LaptopPanel, FALSE))>>))
    IN  {Settings(<<>>, <<laptop, wide, tv>>), Settings(<<>>, <<plain, tv, laptop>>)}

\* The settings: those of at most MaxEntries rules and profiles of the
\* catalogues, in any order, and the two of three profiles.
SettingsDocuments ==
    {Settings(rules, profiles) :
        <<rules, profiles>> \in
            {pair \in Arrangements(DefaultProfileCatalogue, MaxEntries)
                      \X Arrangements(ProfileCatalogue, MaxEntries) :
                 Len(pair[1]) + Len(pair[2]) <= MaxEntries}}
    \cup LongDocuments

\* What the X server can report of its outputs: the laptop panel eDP1 is
\* always connected, HDMI1 is plugged or not, either may be driven (a
\* disconnected output stays driven until it is turned off), and at most
\* one output is primary.
Displays ==
    {disp \in [1..Len(OutputNames) ->
                  [name : Range(OutputNames), connected : BOOLEAN,
                   configuration : {None, LaptopPanel}, primary : BOOLEAN]] :
        /\ \A i \in DOMAIN disp : disp[i].name = OutputNames[i]
        /\ disp[1].connected
        /\ Cardinality({i \in DOMAIN disp : disp[i].primary}) <= 1}

\* What a report can describe of the two outputs: as Displays, and with both
\* outputs flagged primary.
ReportedDisplays ==
    {disp \in [1..Len(OutputNames) ->
                  [name : Range(OutputNames), connected : BOOLEAN,
                   configuration : {None, LaptopPanel}, primary : BOOLEAN]] :
        /\ \A i \in DOMAIN disp : disp[i].name = OutputNames[i]
        /\ disp[1].connected}

\* The JSON `pactl -f json list sinks` prints: name, monitor_source and
\* properties["alsa.card"] ("" when the sink is not an ALSA sink).
PactlEntry(name, card) ==
    [name |-> name, monitor_source |-> name \o ".monitor", alsa_card |-> card]

SinkListings ==
    { <<PactlEntry("bluez.a2dp", ""), PactlEntry("alsa.analog", "0"),
        PactlEntry("alsa.usb", "2"), PactlEntry("alsa.hdmi", "1")>> }

SettleChoices == (0..MaxSettle) \cup {remaining_ms \div delay_ms}

\* The environments of one apply_profile call: which hook scripts exist, the
\* poll at which the root window id settles (polled only when the
\* profile-change hook exists) and the invocation that fails; a failure, and
\* a root window id that settles at another poll than the first, are tried
\* with both hooks present.
Environments ==
    {env \in [on_change_exists : BOOLEAN, on_primary_exists : BOOLEAN,
              settle : SettleChoices, fail : FailPoints] :
        /\ ~env.on_change_exists => env.settle = 0
        /\ (env.on_change_exists /\ ~env.on_primary_exists) => env.settle = 1
        /\ env.fail # "none" =>
               env.on_change_exists /\ env.on_primary_exists /\ env.settle = 1}

\* The environment of a call that names no profile: it ends before any hook,
\* poll or invocation is reached.
Unreached ==
    [on_change_exists |-> TRUE, on_primary_exists |-> TRUE, settle |-> 1,
     fail |-> "none"]

\* An EDID base block: the header, 46 bytes of vendor and timing data, four
\* 18-byte descriptor blocks, the extension count and the checksum.
EdidBlock(header, descriptors) ==
    header \o [i \in 1..46 |-> 0] \o descriptors \o <<0, 0>>

\* A display descriptor: two zero bytes, the reserved byte, the tag, a zero
\* byte and 13 bytes of text
DisplayDescriptor(reserved, tag, text) ==
    <<0, 0, reserved, tag, 0>> \o text \o [i \in 1..(13 - Len(text)) |-> 32]

\* A detailed timing descriptor (its first two bytes are the pixel clock)
TimingDescriptor == <<1, 29>> \o [i \in 1..16 |-> 0]

\* "DELL" and "S1", newline terminated
NameText == <<68, 69, 76, 76, 10>>

SerialText == <<83, 49, 10>>

ValidDump ==
    EdidBlock(EdidHeader,
              TimingDescriptor \o DisplayDescriptor(0, 252, NameText)
              \o DisplayDescriptor(0, 255, SerialText)
              \o DisplayDescriptor(0, 252, SerialText))

BadHeaderDump ==
    EdidBlock(<<0, 255, 255, 255, 255, 255, 255, 1>>,
              TimingDescriptor \o DisplayDescriptor(0, 252, NameText)
              \o DisplayDescriptor(0, 255, SerialText)
              \o DisplayDescriptor(0, 252, SerialText))

ReservedDump ==
    EdidBlock(EdidHeader,
              TimingDescriptor \o DisplayDescriptor(1, 252, NameText)
              \o DisplayDescriptor(0, 255, SerialText)
              \o DisplayDescriptor(0, 252, SerialText))

\* The 18-byte blocks the decoded dumps are made of: detailed timing
\* descriptors (one whose byte 3 is the display-name tag), name and serial
\* descriptors, and a name descriptor whose reserved byte is set
DescriptorChoices ==
    { TimingDescriptor,
      <<1, 29, 0, 252>> \o [i \in 1..14 |-> 0],
      DisplayDescriptor(0, 252, NameText),
      DisplayDescriptor(0, 252, SerialText),
      DisplayDescriptor(0, 255, SerialText),
      DisplayDescriptor(1, 252, NameText) }

\* The byte strings EDIDInfo is built from
EdidDumps ==
    {EdidBlock(EdidHeader, a \o b \o c \o d) :
        a \in DescriptorChoices, b \in DescriptorChoices,
        c \in DescriptorChoices, d \in DescriptorChoices}
    \cup {BadHeaderDump, SubSeq(ValidDump, 1, 127)}

\* The descriptor types looked up: display name, serial number, unspecified text
DescriptorIds == {252, 255, 254}

\* The hex lines of the reports: a whole dump on one line, the first 64 bytes
\* of a dump, and a line with an odd number of digits
HexLines ==
    {HexLine(hex(ValidDump)), HexLine(hex(BadHeaderDump)),
     HexLine(hex(ReservedDump)), HexLine(hex(SubSeq(ValidDump, 1, 64))),
     HexLine("abc")}

\* The lines a report of `xrandr --prop` is made of
ReportLines ==
    {ScreenLine("0", 4480, 1440), ScreenLine("1", 1920, 1080),
     OutputLine("eDP1", "connected", TRUE, Geometry(1920, 1080, 0, 0)),
     OutputLine("HDMI1", "connected", TRUE, Geometry(2560, 1440, 1920, 0)),
     OutputLine("HDMI1", "connected", FALSE, Geometry(2560, 1440, 0, 0)),
     OutputLine("eDP1", "connected", TRUE, None),
     OutputLine("DP1", "disconnected", FALSE, None),
     ModeLine(1920, 1080, <<RateToken(Decimal(60), TRUE, TRUE),
                            RateToken(Decimal(30), FALSE, FALSE)>>),
     ModeLine(2560, 1440, <<RateToken(Decimal(60), FALSE, FALSE),
                            RateToken(Decimal(50), FALSE, FALSE)>>),
     ModeLine(1920, 1080, <<RateToken(Decimal(75), FALSE, FALSE),
                            RateToken(Decimal(50), FALSE, TRUE)>>),
     EdidLine, OtherLine, BlankLine,
     IndentedLine(ScreenLine("0", 4480, 1440)),
     IndentedLine(OutputLine("eDP1", "connected", TRUE,
                             Geometry(1920, 1080, 0, 0))),
     HeaderLikeModeLine(1920, 1080, "connected", FALSE, None,
                        <<RateToken(Decimal(60), TRUE, TRUE),
                          RateToken(Decimal(30), FALSE, FALSE)>>),
     HeaderLikeModeLine(1920, 1080, "connected", TRUE,
                        Geometry(1920, 1080, 0, 0),
                        <<RateToken(Decimal(60), TRUE, TRUE)>>),
     ModeLine(1280, 720, <<RateToken(Decimal(60), FALSE, FALSE),
                           RateToken(Decimal(50), FALSE, FALSE)>>)}
    \cup HexLines

\* The "mode" object of an output entry: the refresh rate absent, null, a
\* number or a string
ModeDocuments ==
    LET resolution == [width |-> 1920, height |-> 1080]
    IN  {[resolution |-> resolution]}
        \cup {[resolution |-> resolution, refresh_rate |-> rate] :
                  rate \in {None, [int |-> 60], [str |-> "60"]}}

\* An entry of "outputs": primary_candidate absent, true or false
OutputDocuments ==
    LET configurations == {[mode |-> mode, position |-> [x |-> 0, y |-> 0]] :
                               mode \in ModeDocuments}
    IN  {[configuration |-> cfg] : cfg \in configurations}
        \cup {[configuration |-> cfg, primary_candidate |-> candidate] :
                  cfg \in configurations, candidate \in BOOLEAN}

DocumentOutputName(j) == IF j = 1 THEN "eDP1" ELSE "HDMI" \o ToString(j - 1)

\* The "profiles" object: empty, or the profile "laptop" with up to
\* MaxDocOutputs outputs
ProfilesDocuments ==
    {<<>>}
    \cup {<<Entry("laptop", [pactl_sink_option_regexes |-> <<"alsa">>,
                             outputs |-> [j \in 1..n |->
                                             Entry(DocumentOutputName(j), states[j])]])>> :
              n \in 0..MaxDocOutputs, states \in [1..MaxDocOutputs -> OutputDocuments]}

DefaultProfilesDocuments ==
    {<<>>, <<[connected_output_names |-> <<"eDP1">>, profile_name |-> "laptop"]>>,
     <<[connected_output_names |-> <<"eDP1", "HDMI1">>, profile_name |-> "dual"],
       [connected_output_names |-> <<"eDP1">>, profile_name |-> "laptop"]>>}

\* The settings files: "default_profiles" and "profiles" present or absent
SettingsFiles ==
    {[default_profiles |-> rules, profiles |-> profiles] :
         rules \in DefaultProfilesDocuments, profiles \in ProfilesDocuments}
    \cup {[profiles |-> profiles] : profiles \in ProfilesDocuments}
    \cup {[default_profiles |-> rules] : rules \in DefaultProfilesDocuments}

\* No settings file is being read or written.
NoSettingsFile ==
    [document |-> [profiles |-> <<>>], loaded |-> [status |-> "none"],
     stored |-> [status |-> "none"]]

\* No report is being parsed.
NoParse ==
    [report |-> <<>>, parser |-> ParserStart, parsed |-> [status |-> "none"]]

\* No EDID is being decoded.
NoEdid == [decoded |-> [status |-> "none"], looked_up |-> [status |-> "none"]]

\* main has not returned and has printed nothing; -1 is no exit status.
NoExit == [exit_code |-> -1, stdout |-> <<>>]

\* No operation is in progress: the caller holds the engine between calls.
Idle == [kind |-> "idle", name |-> "", on_change_exists |-> FALSE,
         on_primary_exists |-> FALSE, settle |-> 0, fail |-> "none"]

\* websocket_server.py: the connections a server can receive, the requests
\* they carry (None, the broadcaster's path, another path) and the threads:
\* one handler thread per connection and one thread calling send_state.
MaxConnections == 2

Connections == {"ws" \o ToString(i) : i \in 1..MaxConnections}

BroadcastPath == "/state"

Requests == {None, [path |-> BroadcastPath], [path |-> "/other"]}

SendState == "send_state"

Threads == Connections \cup {SendState}

\* _clients_lock held by no thread
Free == ""

\* No WebSocketBroadcaster exists.
NoBroadcaster ==
    [clients |-> {}, clients_lock |-> Free,
     position |-> [t \in Threads |-> "absent"], snapshot |-> <<>>,
     connection |-> [c \in Connections |-> [request |-> None, closed |-> TRUE]]]

\* battery_monitor.py: what /sys/class/power_supply/BAT0 can read: the
\* integer in `capacity` (one above 100 included, which is clamped) and the
\* word in `status`.
Capacities == {0, 1, 3, 4, 5, 9, 10, 11, 12, 50, 51, 52, 75, 76, 77, 90, 91, 92, 99, 100, 150}

Statuses == {"Charging", "Full", "Not charging", "Discharging"}

Readings == [capacity : Capacities, status : Statuses]

\* No BatteryMonitor exists.
NoBattery ==
    [monitor |-> [exists |-> FALSE],
     tray |-> [pixbuf |-> None, tooltip |-> None],
     notification |-> None]

-----------------------------------------------------------------------------
(* The state machine.                                                      *)

\* ProfileSelector(settings): __post_init__ has run update_state.
Init ==
    /\ settings \in SettingsDocuments
    /\ display \in Displays
    /\ sinks \in SinkListings
    /\ default_sink = IF sinks = <<>> THEN "auto_null" ELSE sinks[Len(sinks)].name
    /\ screen = Screen(display)
    /\ current_profile = get_current_profile(settings, screen)
    /\ default_profile = get_default_profile(settings, screen)
    /\ candidate_pactl_sinks \in
           get_candidate_pactl_sinks(settings, current_profile, sinks)
    /\ calls = <<Call("xrandr", <<"--prop">>), ListSinksCall>>
    /\ outcome = "ok"
    /\ result = ""
    /\ op = [Idle EXCEPT !.kind = "init"]
    /\ document = NoSettingsFile.document
    /\ loaded = NoSettingsFile.loaded
    /\ stored = NoSettingsFile.stored
    /\ report = NoParse.report
    /\ parser = NoParse.parser
    /\ parsed = NoParse.parsed
    /\ exit_code = NoExit.exit_code
    /\ stdout = NoExit.stdout
    /\ decoded = NoEdid.decoded
    /\ looked_up = NoEdid.looked_up
    /\ invocation = 0
    /\ clients = NoBroadcaster.clients
    /\ clients_lock = NoBroadcaster.clients_lock
    /\ position = NoBroadcaster.position
    /\ snapshot = NoBroadcaster.snapshot
    /\ connection = NoBroadcaster.connection
    /\ battery = NoBattery.monitor
    /\ tray = NoBattery.tray
    /\ notification = NoBattery.notification

\* Mutant of UpdateState: the candidate sinks are listed before the profile
\* names are resolved, so a failing listing leaves the names as they were.
UpdateState_sinks_first ==
    \E fail \in {"none", "xrandr", "pactl_list"} :
        LET new_screen == Screen(display)
            new_current == get_current_profile(settings, new_screen)
        IN  /\ op = Idle
            /\ op' = [Idle EXCEPT !.kind = "update_state", !.fail = fail]
            /\ result' = ""
            /\ UNCHANGED <<settings, display, sinks, default_sink>>
            /\ UNCHANGED parser_vars
            /\ UNCHANGED settings_vars
            /\ UNCHANGED main_vars
            /\ UNCHANGED edid_vars
            /\ UNCHANGED cycling_vars
            /\ UNCHANGED broadcaster_vars
            /\ UNCHANGED battery_vars
            /\ IF fail = "xrandr"
               THEN /\ calls' = <<Call("xrandr", <<"--prop">>)>>
                    /\ outcome' = "RuntimeError"
                    /\ UNCHANGED <<screen, current_profile, default_profile,
                                   candidate_pactl_sinks>>
               ELSE /\ calls' = <<Call("xrandr", <<"--prop">>), ListSinksCall>>
                    /\ screen' = new_screen
                    /\ IF fail = "pactl_list"
                       THEN /\ outcome' = "RuntimeError"
                            /\ UNCHANGED <<current_profile, default_profile,
                                           candidate_pactl_sinks>>
                       ELSE /\ outcome' = "ok"
                            /\ current_profile' = new_current
                            /\ default_profile' = get_default_profile(settings, new_screen)
                            /\ candidate_pactl_sinks' \in
                                   get_candidate_pactl_sinks(settings, new_current, sinks)

\* ProfileSelector.update_state() (lines 151-155)
UpdateState ==
    \E fail \in {"none", "xrandr", "pactl_list"} :
        LET new_screen == Screen(display)
            new_current == get_current_profile(settings, new_screen)
        IN  /\ op = Idle
            /\ op' = [Idle EXCEPT !.kind = "update_state", !.fail = fail]
            /\ result' = ""
            /\ UNCHANGED <<settings, display, sinks, default_sink>>
            /\ UNCHANGED parser_vars
            /\ UNCHANGED settings_vars
            /\ UNCHANGED main_vars
            /\ UNCHANGED edid_vars
            /\ UNCHANGED cycling_vars
            /\ UNCHANGED broadcaster_vars
            /\ UNCHANGED battery_vars
            /\ IF fail = "xrandr"
               THEN /\ calls' = <<Call("xrandr", <<"--prop">>)>>
                    /\ outcome' = "RuntimeError"
                    /\ UNCHANGED <<screen, current_profile, default_profile,
                                   candidate_pactl_sinks>>
               ELSE /\ calls' = <<Call("xrandr", <<"--prop">>), ListSinksCall>>
                    /\ screen' = new_screen
                    /\ current_profile' = new_current
                    /\ default_profile' = get_default_profile(settings, new_screen)
                    /\ IF fail = "pactl_list"
                       THEN /\ outcome' = "RuntimeError"
                            /\ UNCHANGED candidate_pactl_sinks
                       ELSE /\ outcome' = "ok"
                            /\ candidate_pactl_sinks' \in
                                   get_candidate_pactl_sinks(settings, new_current, sinks)

\* ProfileSelector.next_valid_profile(name) (lines 247-266)
NextValidProfile ==
    \E name \in Range(Keys(settings.profiles)) \cup {"", "missing"} :
        LET next == next_valid_profile(settings, screen, current_profile, name)
        IN  /\ op = Idle
            /\ op' = [Idle EXCEPT !.kind = "next_valid_profile", !.name = name]
            /\ calls' = <<>>
            /\ outcome' = IF next.ok THEN "ok" ELSE next.error
            /\ result' = IF next.ok THEN next.value ELSE ""
            /\ UNCHANGED <<settings, screen, current_profile, default_profile,
                           candidate_pactl_sinks, display, sinks, default_sink>>
            /\ UNCHANGED parser_vars
            /\ UNCHANGED settings_vars
            /\ UNCHANGED main_vars
            /\ UNCHANGED edid_vars
            /\ UNCHANGED cycling_vars
            /\ UNCHANGED broadcaster_vars
            /\ UNCHANGED battery_vars

\* ProfileSelector.apply_profile(name) (lines 268-342)
ApplyProfile ==
    \E name \in Range(Keys(settings.profiles)) \cup {"", "missing"} :
    \E env \in IF HasKey(settings.profiles, name) THEN Environments ELSE {Unreached} :
        LET applied == apply_profile(settings, screen, current_profile, name,
                                     display, sinks, default_sink,
                                     env.on_change_exists, env.on_primary_exists,
                                     env.settle, env.fail)
        IN  /\ op = Idle
            /\ op' = [kind |-> "apply_profile", name |-> name,
                      on_change_exists |-> env.on_change_exists,
                      on_primary_exists |-> env.on_primary_exists,
                      settle |-> env.settle, fail |-> env.fail]
            /\ calls' = applied.calls
            /\ outcome' = applied.outcome
            /\ result' = ""
            /\ display' = applied.display
            /\ default_sink' = applied.default_sink
            /\ UNCHANGED <<settings, screen, current_profile, default_profile,
                           candidate_pactl_sinks, sinks>>
            /\ UNCHANGED parser_vars
            /\ UNCHANGED settings_vars
            /\ UNCHANGED main_vars
            /\ UNCHANGED edid_vars
            /\ UNCHANGED cycling_vars
            /\ UNCHANGED broadcaster_vars
            /\ UNCHANGED battery_vars

\* The operation has returned (or raised) to its caller, which holds the
\* engine until its next call; the record of the finished call is dropped.
Return ==
    /\ op # Idle
    /\ op' = Idle
    /\ calls' = <<>>
    /\ outcome' = "ok"
    /\ result' = ""
    /\ UNCHANGED <<settings, screen, current_profile, default_profile,
                   candidate_pactl_sinks, display, sinks, default_sink>>
    /\ UNCHANGED parser_vars
    /\ UNCHANGED settings_vars
    /\ UNCHANGED main_vars
    /\ UNCHANGED edid_vars
    /\ UNCHANGED cycling_vars
    /\ UNCHANGED broadcaster_vars
    /\ UNCHANGED battery_vars

\* ProfileSelector.cycle_pactl_sink() (lines 213-225)
CyclePactlSink ==
    \E fail \in {"none", "pactl_get", "pactl_set"} :
        LET cycled == cycle_pactl_sink(candidate_pactl_sinks, default_sink, fail)
        IN  /\ op = Idle
            /\ op' = [Idle EXCEPT !.kind = "cycle_pactl_sink", !.fail = fail]
            /\ calls' = cycled.calls
            /\ outcome' = cycled.outcome
            /\ result' = cycled.result
            /\ default_sink' = cycled.default_sink
            /\ UNCHANGED <<settings, screen, current_profile, default_profile,
                           candidate_pactl_sinks, display, sinks>>
            /\ UNCHANGED parser_vars
            /\ UNCHANGED settings_vars
            /\ UNCHANGED main_vars
            /\ UNCHANGED edid_vars
            /\ UNCHANGED cycling_vars
            /\ UNCHANGED broadcaster_vars
            /\ UNCHANGED battery_vars

\* PACtl.cycle_default_sink() (pactl.py lines 95-110), called on the PACtl
\* the engine holds; it returns nothing.
CycleDefaultSink ==
    \E fail \in {"none", "pactl_list", "pactl_get", "pactl_set"} :
        LET cycled == cycle_default_sink(sinks, default_sink, fail)
        IN  /\ op = Idle
            /\ op' = [Idle EXCEPT !.kind = "cycle_default_sink", !.fail = fail]
            /\ calls' = cycled.calls
            /\ outcome' = cycled.outcome
            /\ result' = ""
            /\ default_sink' = cycled.default_sink
            /\ UNCHANGED <<settings, screen, current_profile, default_profile,
                           candidate_pactl_sinks, display, sinks>>
            /\ UNCHANGED parser_vars
            /\ UNCHANGED settings_vars
            /\ UNCHANGED main_vars
            /\ UNCHANGED edid_vars
            /\ UNCHANGED cycling_vars
            /\ UNCHANGED broadcaster_vars
            /\ UNCHANGED battery_vars

\* ProfileSelector.cycle_primary_output() (lines 227-245)
CyclePrimaryOutput ==
    \E on_primary_exists \in BOOLEAN :
    \E fail \in {"none", "xrandr"} \cup (IF on_primary_exists THEN {"on_primary"} ELSE {}) :
        LET cycled == cycle_primary_output(settings, screen, current_profile,
                                           display, on_primary_exists, fail)
        IN  /\ op = Idle
            /\ op' = [Idle EXCEPT !.kind = "cycle_primary_output",
                                  !.on_primary_exists = on_primary_exists,
                                  !.fail = fail]
            /\ calls' = cycled.calls
            /\ outcome' = cycled.outcome
            /\ result' = cycled.result
            /\ display' = cycled.display
            /\ UNCHANGED <<settings, screen, current_profile, default_profile,
                           candidate_pactl_sinks, sinks, default_sink>>
            /\ UNCHANGED parser_vars
            /\ UNCHANGED settings_vars
            /\ UNCHANGED main_vars
            /\ UNCHANGED edid_vars
            /\ UNCHANGED cycling_vars
            /\ UNCHANGED broadcaster_vars
            /\ UNCHANGED battery_vars

Next == UpdateState \/ NextValidProfile \/ ApplyProfile \/ Return

Spec == Init /\ [][Next]_vars

\* The engine driven through its two cycle operations, each on the state the
\* last refresh left, and its PACtl through cycle_default_sink.
CycleNext ==
    \/ UpdateState
    \/ CyclePactlSink
    \/ CycleDefaultSink
    \/ CyclePrimaryOutput
    \/ Return

CycleSpec == Init /\ [][CycleNext]_vars

\* No ProfileSelector exists; `kind` names what runs instead.
EngineAbsent(kind) ==
    /\ settings = Settings(<<>>, <<>>)
    /\ display = <<>>
    /\ sinks = <<>>
    /\ default_sink = ""
    /\ screen = Screen(<<>>)
    /\ current_profile = ""
    /\ default_profile = ""
    /\ candidate_pactl_sinks = <<>>
    /\ calls = <<>>
    /\ outcome = "ok"
    /\ result = ""
    /\ op = [Idle EXCEPT !.kind = kind]

\* No settings file is read, no report is parsed, main does not run.
ToolsAbsent ==
    /\ document = NoSettingsFile.document
    /\ loaded = NoSettingsFile.loaded
    /\ stored = NoSettingsFile.stored
    /\ report = NoParse.report
    /\ parser = NoParse.parser
    /\ parsed = NoParse.parsed
    /\ exit_code = NoExit.exit_code
    /\ stdout = NoExit.stdout

\* ProfileSelector(settings) on any Screen a report can describe.
HeldInit ==
    /\ settings \in SettingsDocuments
    /\ display \in ReportedDisplays
    /\ sinks \in SinkListings
    /\ default_sink = IF sinks = <<>> THEN "auto_null" ELSE sinks[Len(sinks)].name
    /\ screen = Screen(display)
    /\ current_profile = get_current_profile(settings, screen)
    /\ default_profile = get_default_profile(settings, screen)
    /\ candidate_pactl_sinks \in
           get_candidate_pactl_sinks(settings, current_profile, sinks)
    /\ calls = <<Call("xrandr", <<"--prop">>), ListSinksCall>>
    /\ outcome = "ok"
    /\ result = ""
    /\ op = [Idle EXCEPT !.kind = "init"]
    /\ ToolsAbsent
    /\ decoded = NoEdid.decoded
    /\ looked_up = NoEdid.looked_up
    /\ invocation = 0
    /\ clients = NoBroadcaster.clients
    /\ clients_lock = NoBroadcaster.clients_lock
    /\ position = NoBroadcaster.position
    /\ snapshot = NoBroadcaster.snapshot
    /\ connection = NoBroadcaster.connection
    /\ battery = NoBattery.monitor
    /\ tray = NoBattery.tray
    /\ notification = NoBattery.notification

\* The engine applying profiles and refreshing its state on such screens.
HeldNext == UpdateState \/ ApplyProfile \/ Return

HeldSpec == HeldInit /\ [][HeldNext]_vars

\* The engine driven through all of its operations, in any order.
EngineNext ==
    \/ UpdateState
    \/ NextValidProfile
    \/ ApplyProfile
    \/ CyclePactlSink
    \/ CyclePrimaryOutput
    \/ Return

EngineSpec == Init /\ [][EngineNext]_vars

\* The environments main's operation can meet: those of apply_profile for
\* --cycle-profile, a hook script present or not and a failing xrandr for
\* --cycle-primary, a failing pactl for --cycle-pactl-sink.
MainEnvironments(option) ==
    IF option = "cycle_profile" THEN Environments
    ELSE IF option = "cycle_primary"
    THEN {[Unreached EXCEPT !.on_primary_exists = exists, !.fail = fail] :
              exists \in BOOLEAN, fail \in {"none", "xrandr"}}
    ELSE IF option = "cycle_pactl_sink"
    THEN {[Unreached EXCEPT !.fail = fail] : fail \in {"none", "pactl_set"}}
    ELSE {Unreached}

\* One run of the command line tool: main(argv) (lines 345-430), whose
\* ProfileSelector(settings) holds what Init computed.
Main ==
    \E option \in Options :
    \E name \in IF option = "profile"
                THEN Range(Keys(settings.profiles)) \cup {"missing"} ELSE {""} :
    \E env \in MainEnvironments(option) :
    \E run \in {main(option, name, settings, screen, current_profile,
                      default_profile, candidate_pactl_sinks, display, sinks,
                      default_sink, env)} :
            /\ op.kind = "init"
            /\ op' = [kind |-> option, name |-> name,
                      on_change_exists |-> env.on_change_exists,
                      on_primary_exists |-> env.on_primary_exists,
                      settle |-> env.settle, fail |-> env.fail]
            /\ calls' = run.calls
            /\ outcome' = run.outcome
            /\ result' = ""
            /\ exit_code' = run.exit_code
            /\ stdout' = run.stdout
            /\ display' = run.display
            /\ default_sink' = run.default_sink
            /\ UNCHANGED <<settings, screen, current_profile, default_profile,
                           candidate_pactl_sinks, sinks>>
            /\ UNCHANGED parser_vars
            /\ UNCHANGED settings_vars
            /\ UNCHANGED edid_vars
            /\ UNCHANGED cycling_vars
            /\ UNCHANGED broadcaster_vars
            /\ UNCHANGED battery_vars

MainSpec == Init /\ [][Main]_vars

\* One run of the tool with --cycle-profile (lines 398-428) on the display as
\* the last run left it: a new ProfileSelector reads the topology, main
\* chooses next_valid_profile() and applies it; every invocation exits zero.
CycleProfile ==
    \E env \in {e \in Environments : e.fail = "none"} :
    \E fresh \in {[screen |-> Screen(display),
                   current |-> get_current_profile(settings, Screen(display)),
                   default |-> get_default_profile(settings, Screen(display))]} :
    \E candidates \in get_candidate_pactl_sinks(settings, fresh.current, sinks) :
    \E next \in {next_valid_profile(settings, fresh.screen, fresh.current, "")} :
    \E run \in {main("cycle_profile", "", settings, fresh.screen, fresh.current,
                     fresh.default, candidates, display, sinks, default_sink, env)} :
        /\ op' = [kind |-> "cycle_profile",
                  name |-> IF next.ok THEN next.value ELSE "",
                  on_change_exists |-> env.on_change_exists,
                  on_primary_exists |-> env.on_primary_exists,
                  settle |-> env.settle, fail |-> env.fail]
        /\ screen' = fresh.screen
        /\ current_profile' = fresh.current
        /\ default_profile' = fresh.default
        /\ candidate_pactl_sinks' = candidates
        /\ calls' = run.calls
        /\ outcome' = run.outcome
        /\ result' = ""
        /\ exit_code' = run.exit_code
        /\ stdout' = run.stdout
        /\ display' = run.display
        /\ default_sink' = run.default_sink
        /\ UNCHANGED <<settings, sinks>>
        /\ UNCHANGED parser_vars
        /\ UNCHANGED settings_vars
        /\ UNCHANGED edid_vars
        /\ invocation' = 1 - invocation
        /\ UNCHANGED broadcaster_vars
        /\ UNCHANGED battery_vars

\* Another run of the tool takes place.
Rerun == invocation' = 1 - invocation

\* The tool is run with --cycle-profile again and again.
CyclingSpec == Init /\ [][CycleProfile]_vars /\ WF_invocation(Rerun)

-----------------------------------------------------------------------------
(* EDIDInfo as a state machine: an EDIDInfo is built from bytes and its    *)
(* descriptors are looked up; no engine, parser or file is involved.       *)

EdidInit ==
    /\ EngineAbsent("edid")
    /\ ToolsAbsent
    /\ decoded \in {[status |-> "raw", raw |-> raw] : raw \in EdidDumps}
    /\ looked_up = NoEdid.looked_up
    /\ invocation = 0
    /\ clients = NoBroadcaster.clients
    /\ clients_lock = NoBroadcaster.clients_lock
    /\ position = NoBroadcaster.position
    /\ snapshot = NoBroadcaster.snapshot
    /\ connection = NoBroadcaster.connection
    /\ battery = NoBattery.monitor
    /\ tray = NoBattery.tray
    /\ notification = NoBattery.notification

\* EDIDInfo(raw=...) (lines 47-56)
Decode ==
    LET built == EDIDInfo(decoded.raw)
    IN  /\ decoded.status = "raw"
        /\ decoded' = IF built.ok
                      THEN [status |-> "built", edid |-> built.edid]
                      ELSE [status |-> "failed", error |-> built.error]
        /\ UNCHANGED looked_up
        /\ UNCHANGED engine_vars
        /\ UNCHANGED parser_vars
        /\ UNCHANGED settings_vars
        /\ UNCHANGED main_vars
        /\ UNCHANGED cycling_vars
        /\ UNCHANGED broadcaster_vars
        /\ UNCHANGED battery_vars

\* EDIDInfo.descriptor(id) (lines 98-102)
Descriptor ==
    \E id \in DescriptorIds :
        LET read == descriptor(decoded.edid, id)
        IN  /\ decoded.status = "built"
            /\ looked_up' = IF read.ok
                            THEN [status |-> "returned", id |-> id, block |-> read.block]
                            ELSE [status |-> "failed", id |-> id, error |-> read.error]
            /\ UNCHANGED decoded
            /\ UNCHANGED engine_vars
            /\ UNCHANGED parser_vars
            /\ UNCHANGED settings_vars
            /\ UNCHANGED main_vars
            /\ UNCHANGED cycling_vars
            /\ UNCHANGED broadcaster_vars
            /\ UNCHANGED battery_vars

EdidNext == Decode \/ Descriptor

EdidSpec == EdidInit /\ [][EdidNext]_vars

-----------------------------------------------------------------------------
(* The parser as a state machine: XRandr.screen() reads the report line by *)
(* line; no engine is involved.                                            *)

ParseInit ==
    /\ settings = Settings(<<>>, <<>>)
    /\ display = <<>>
    /\ sinks = <<>>
    /\ default_sink = ""
    /\ screen = Screen(<<>>)
    /\ current_profile = ""
    /\ default_profile = ""
    /\ candidate_pactl_sinks = <<>>
    /\ calls = <<Call("xrandr", <<"--prop">>)>>
    /\ outcome = "ok"
    /\ result = ""
    /\ op = [Idle EXCEPT !.kind = "screen"]
    /\ document = NoSettingsFile.document
    /\ loaded = NoSettingsFile.loaded
    /\ stored = NoSettingsFile.stored
    /\ report = <<>>
    /\ parser = ParserStart
    /\ parsed = [status |-> "reading"]
    /\ exit_code = NoExit.exit_code
    /\ stdout = NoExit.stdout
    /\ decoded = NoEdid.decoded
    /\ looked_up = NoEdid.looked_up
    /\ invocation = 0
    /\ clients = NoBroadcaster.clients
    /\ clients_lock = NoBroadcaster.clients_lock
    /\ position = NoBroadcaster.position
    /\ snapshot = NoBroadcaster.snapshot
    /\ connection = NoBroadcaster.connection
    /\ battery = NoBattery.monitor
    /\ tray = NoBattery.tray
    /\ notification = NoBattery.notification

\* Lines 441-500: the loop over the lines ls, from the state p; the error of
\* the first line that raises ends it.
RECURSIVE read_lines(_, _)
read_lines(p, ls) ==
    IF ls = <<>> THEN Continues(p)
    ELSE LET read == read_line(p, Head(ls))
         IN  IF read.ok THEN read_lines(read.parser, Tail(ls)) ELSE read

\* xrandr prints one more line and the loop of lines 441-500 reads the
\* lines this adds to what invoke returns: none when the line is blank,
\* since strip() removes the blank lines that end the output; otherwise the
\* line, after the blank lines printed since the last line read.
ReadLine ==
    \E printed \in ReportLines :
    \E before \in {lines_read(report)} :
    \E after \in {lines_read(Append(report, printed))} :
        LET read == read_lines(parser, SubSeq(after, Len(before) + 1, Len(after)))
        IN  /\ parsed.status = "reading"
            /\ Len(report) < MaxLines
            /\ report' = Append(report, printed)
            /\ IF read.ok
               THEN /\ parser' = read.parser
                    /\ UNCHANGED parsed
               ELSE /\ parsed' = [status |-> "failed", error |-> read.error]
                    /\ UNCHANGED parser
            /\ UNCHANGED engine_vars
            /\ UNCHANGED settings_vars
            /\ UNCHANGED main_vars
            /\ UNCHANGED edid_vars
            /\ UNCHANGED cycling_vars
            /\ UNCHANGED broadcaster_vars
            /\ UNCHANGED battery_vars

\* xrandr has printed its last line (lines 501-509); the blank lines it
\* printed last are never read.
EndOfReport ==
    LET ended == end_of_report(parser)
    IN  /\ parsed.status = "reading"
        /\ parsed' = IF ended.ok
                     THEN [status |-> "returned", screen |-> ended.screen]
                     ELSE [status |-> "failed", error |-> ended.error]
        /\ UNCHANGED <<report, parser>>
        /\ UNCHANGED engine_vars
        /\ UNCHANGED settings_vars
        /\ UNCHANGED main_vars
        /\ UNCHANGED edid_vars
        /\ UNCHANGED cycling_vars
        /\ UNCHANGED broadcaster_vars
        /\ UNCHANGED battery_vars

ParseNext == ReadLine \/ EndOfReport

ParseSpec == ParseInit /\ [][ParseNext]_vars

-----------------------------------------------------------------------------
(* The settings file as a state machine: Settings.from_json reads it and   *)
(* Settings.to_json writes the Settings back.                              *)

SettingsInit ==
    /\ settings = Settings(<<>>, <<>>)
    /\ display = <<>>
    /\ sinks = <<>>
    /\ default_sink = ""
    /\ screen = Screen(<<>>)
    /\ current_profile = ""
    /\ default_profile = ""
    /\ candidate_pactl_sinks = <<>>
    /\ calls = <<>>
    /\ outcome = "ok"
    /\ result = ""
    /\ op = [Idle EXCEPT !.kind = "settings"]
    /\ document \in SettingsFiles
    /\ loaded = [status |-> "none"]
    /\ stored = [status |-> "none"]
    /\ report = NoParse.report
    /\ parser = NoParse.parser
    /\ parsed = NoParse.parsed
    /\ exit_code = NoExit.exit_code
    /\ stdout = NoExit.stdout
    /\ decoded = NoEdid.decoded
    /\ looked_up = NoEdid.looked_up
    /\ invocation = 0
    /\ clients = NoBroadcaster.clients
    /\ clients_lock = NoBroadcaster.clients_lock
    /\ position = NoBroadcaster.position
    /\ snapshot = NoBroadcaster.snapshot
    /\ connection = NoBroadcaster.connection
    /\ battery = NoBattery.monitor
    /\ tray = NoBattery.tray
    /\ notification = NoBattery.notification

\* Settings.from_json(path) (lines 106-109)
FromJson ==
    LET read == from_dict(document)
    IN  /\ loaded.status = "none"
        /\ loaded' = IF read.ok THEN [status |-> "ok", settings |-> read.settings]
                     ELSE [status |-> "failed", error |-> read.error]
        /\ UNCHANGED <<document, stored>>
        /\ UNCHANGED engine_vars
        /\ UNCHANGED parser_vars
        /\ UNCHANGED main_vars
        /\ UNCHANGED edid_vars
        /\ UNCHANGED cycling_vars
        /\ UNCHANGED broadcaster_vars
        /\ UNCHANGED battery_vars

\* settings.to_json(path) (lines 102-104) on the Settings that were loaded
ToJson ==
    LET dumped == to_json(loaded.settings)
    IN  /\ loaded.status = "ok"
        /\ stored.status = "none"
        /\ stored' = IF dumped.ok THEN [status |-> "ok", document |-> dumped.document]
                     ELSE [status |-> "failed", error |-> dumped.error]
        /\ UNCHANGED <<document, loaded>>
        /\ UNCHANGED engine_vars
        /\ UNCHANGED parser_vars
        /\ UNCHANGED main_vars
        /\ UNCHANGED edid_vars
        /\ UNCHANGED cycling_vars
        /\ UNCHANGED broadcaster_vars
        /\ UNCHANGED battery_vars

SettingsNext == FromJson \/ ToJson

SettingsSpec == SettingsInit /\ [][SettingsNext]_vars

-----------------------------------------------------------------------------
(* WebSocketBroadcaster (websocket_server.py) as a state machine: one      *)
(* handler thread per connection and one thread calling send_state, each   *)
(* at a position of its code; a step is one statement of one thread, or    *)
(* the peer closing a connection.  The positions:                          *)
(*   pending          the connection has not reached _handler yet          *)
(*   acquire_add      line 29, waiting for the lock                        *)
(*   add              line 30                                              *)
(*   release_add      leaving the with block of line 29                    *)
(*   banner           line 33                                              *)
(*   recv             line 36                                              *)
(*   acquire_discard  line 42, waiting for the lock                        *)
(*   discard          line 43                                              *)
(*   release_discard  leaving the with block of line 42                    *)
(*   returned         _handler has returned                                *)
(*   idle             send_state is not running                            *)
(*   acquire          line 47, waiting for the lock                        *)
(*   snapshot         line 48                                              *)
(*   release          leaving the with block of line 47                    *)
(*   send             lines 49-51                                          *)
(*   except           line 53                                              *)

\* Nothing but the broadcaster takes a step.
BroadcasterOnly ==
    /\ UNCHANGED engine_vars
    /\ UNCHANGED parser_vars
    /\ UNCHANGED settings_vars
    /\ UNCHANGED main_vars
    /\ UNCHANGED edid_vars
    /\ UNCHANGED cycling_vars
    /\ UNCHANGED battery_vars

\* The thread t moves to the position `to`.
Goto(t, to) == position' = [position EXCEPT ![t] = to]

\* list(self._clients): the clients in some order
Listings(set) == {l \in Arrangements(set, Cardinality(set)) : Len(l) = Cardinality(set)}

\* WebSocketBroadcaster(port, path=BroadcastPath, banner=...) (lines 11-19),
\* the connections the server will receive still open.
BroadcastInit ==
    /\ EngineAbsent("broadcast")
    /\ ToolsAbsent
    /\ decoded = NoEdid.decoded
    /\ looked_up = NoEdid.looked_up
    /\ invocation = 0
    /\ clients = {}
    /\ clients_lock = Free
    /\ position = [t \in Threads |-> IF t = SendState THEN "idle" ELSE "pending"]
    /\ snapshot = <<>>
    /\ connection \in [Connections -> [request : Requests, closed : {FALSE}]]
    /\ battery = NoBattery.monitor
    /\ tray = NoBattery.tray
    /\ notification = NoBattery.notification

\* The peer closes the connection.
PeerCloses ==
    \E c \in Connections :
        /\ ~connection[c].closed
        /\ connection' = [connection EXCEPT ![c].closed = TRUE]
        /\ UNCHANGED <<clients, clients_lock, position, snapshot>>
        /\ BroadcasterOnly

\* _handler(ws), lines 25-27: a request that is missing or has another path
\* closes the connection and returns.
HandlerChecksPath ==
    \E c \in Connections :
        /\ position[c] = "pending"
        /\ IF connection[c].request = None
              \/ connection[c].request.path # BroadcastPath
           THEN /\ connection' = [connection EXCEPT ![c].closed = TRUE]
                /\ Goto(c, "returned")
           ELSE /\ UNCHANGED connection
                /\ Goto(c, "acquire_add")
        /\ UNCHANGED <<clients, clients_lock, snapshot>>
        /\ BroadcasterOnly

\* with self._clients_lock: entered at line 29, 42 or 47
Acquire ==
    \E t \in Threads :
        /\ position[t] \in {"acquire_add", "acquire_discard", "acquire"}
        /\ clients_lock = Free
        /\ clients_lock' = t
        /\ Goto(t, IF position[t] = "acquire_add" THEN "add"
                   ELSE IF position[t] = "acquire_discard" THEN "discard"
                   ELSE "snapshot")
        /\ UNCHANGED <<clients, snapshot, connection>>
        /\ BroadcasterOnly

\* The with block is left.
Release ==
    \E t \in Threads :
        /\ position[t] \in {"release_add", "release_discard", "release"}
        /\ clients_lock' = Free
        /\ Goto(t, IF position[t] = "release_add" THEN "banner"
                   ELSE IF position[t] = "release_discard" THEN "returned"
                   ELSE "send")
        /\ UNCHANGED <<clients, snapshot, connection>>
        /\ BroadcasterOnly

\* line 30
HandlerAdds ==
    \E c \in Connections :
        /\ position[c] = "add"
        /\ clients' = clients \cup {c}
        /\ Goto(c, "release_add")
        /\ UNCHANGED <<clients_lock, snapshot, connection>>
        /\ BroadcasterOnly

\* line 33: ws.send(banner) raises ConnectionClosed on a closed connection
HandlerSendsBanner ==
    \E c \in Connections :
        /\ position[c] = "banner"
        /\ Goto(c, IF connection[c].closed THEN "acquire_discard" ELSE "recv")
        /\ UNCHANGED <<clients, clients_lock, snapshot, connection>>
        /\ BroadcasterOnly

\* lines 34-40: ws.recv blocks, a timeout or a message loops, and
\* ConnectionClosed leaves the loop.
HandlerReceives ==
    \E c \in Connections :
        /\ position[c] = "recv"
        /\ connection[c].closed
        /\ Goto(c, "acquire_discard")
        /\ UNCHANGED <<clients, clients_lock, snapshot, connection>>
        /\ BroadcasterOnly

\* line 43
HandlerDiscards ==
    \E c \in Connections :
        /\ position[c] = "discard"
        /\ clients' = clients \ {c}
        /\ Goto(c, "release_discard")
        /\ UNCHANGED <<clients_lock, snapshot, connection>>
        /\ BroadcasterOnly

\* send_state(state) is called (line 46).
SendStateCalled ==
    /\ position[SendState] = "idle"
    /\ Goto(SendState, "acquire")
    /\ UNCHANGED <<clients, clients_lock, snapshot, connection>>
    /\ BroadcasterOnly

\* line 48
SendStateLists ==
    /\ position[SendState] = "snapshot"
    /\ snapshot' \in Listings(clients)
    /\ Goto(SendState, "release")
    /\ UNCHANGED <<clients, clients_lock, connection>>
    /\ BroadcasterOnly

\* lines 49-52: the next client of the list is sent the message, which
\* raises ConnectionClosed on a closed connection; after the last client
\* send_state returns.
SendStateSends ==
    /\ position[SendState] = "send"
    /\ IF snapshot = <<>>
       THEN /\ Goto(SendState, "idle")
            /\ UNCHANGED snapshot
       ELSE IF connection[Head(snapshot)].closed
       THEN /\ Goto(SendState, "except")
            /\ UNCHANGED snapshot
       ELSE /\ UNCHANGED position
            /\ snapshot' = Tail(snapshot)
    /\ UNCHANGED <<clients, clients_lock, connection>>
    /\ BroadcasterOnly

\* line 53
SendStateDiscards ==
    /\ position[SendState] = "except"
    /\ clients' = clients \ {Head(snapshot)}
    /\ snapshot' = Tail(snapshot)
    /\ Goto(SendState, "send")
    /\ UNCHANGED <<clients_lock, connection>>
    /\ BroadcasterOnly

BroadcastNext ==
    \/ PeerCloses
    \/ HandlerChecksPath
    \/ Acquire
    \/ Release
    \/ HandlerAdds
    \/ HandlerSendsBanner
    \/ HandlerReceives
    \/ HandlerDiscards
    \/ SendStateCalled
    \/ SendStateLists
    \/ SendStateSends
    \/ SendStateDiscards

BroadcastSpec == BroadcastInit /\ [][BroadcastNext]_vars

-----------------------------------------------------------------------------
(* BatteryMonitor as a state machine: the monitor is constructed, then the *)
(* GLib timer calls update() with whatever the battery reads.              *)

\* No BatteryMonitor has been constructed.
BatteryInit ==
    /\ EngineAbsent("battery")
    /\ ToolsAbsent
    /\ decoded = NoEdid.decoded
    /\ looked_up = NoEdid.looked_up
    /\ invocation = 0
    /\ clients = NoBroadcaster.clients
    /\ clients_lock = NoBroadcaster.clients_lock
    /\ position = NoBroadcaster.position
    /\ snapshot = NoBroadcaster.snapshot
    /\ connection = NoBroadcaster.connection
    /\ battery = NoBattery.monitor
    /\ tray = NoBattery.tray
    /\ notification = NoBattery.notification

\* Nothing but the battery monitor takes a step.
BatteryOnly ==
    /\ UNCHANGED engine_vars
    /\ UNCHANGED parser_vars
    /\ UNCHANGED settings_vars
    /\ UNCHANGED main_vars
    /\ UNCHANGED edid_vars
    /\ UNCHANGED cycling_vars
    /\ UNCHANGED broadcaster_vars

\* BatteryMonitor(style=..., battery_path=...) as main constructs it (lines
\* 342-350): capacity 0 and connected True by default (lines 139-140), a new
\* status icon with no image (lines 158-167), then update() (line 168).
Construct ==
    \E reading \in Readings :
    \E after \in {update([exists |-> TRUE, capacity |-> 0, connected |-> TRUE],
                         [pixbuf |-> None, tooltip |-> None], reading)} :
        /\ ~battery.exists
        /\ battery' = after.monitor
        /\ tray' = after.tray
        /\ notification' = after.notification
        /\ BatteryOnly

\* update() called by the timer (lines 192-193).
Update ==
    /\ battery.exists
    /\ \E reading \in Readings :
       \E after \in {update(battery, tray, reading)} :
           /\ battery' = after.monitor
           /\ tray' = after.tray
           /\ notification' = after.notification
           /\ BatteryOnly

BatteryNext == Construct \/ Update

BatterySpec == BatteryInit /\ [][BatteryNext]_vars

-----------------------------------------------------------------------------
(* Properties.  They are stated over the record of the last operation      *)
(* (op, calls, outcome, result) and, where a property relates the state    *)
(* before a call to the state after it, as a property of every step.       *)

Applied == op.kind = "apply_profile"

Requested == Get(settings.profiles, op.name)

ConnectedNames(scr) == {o.name : o \in {x \in Range(scr.outputs) : x.connected}}

ActiveNames(outputs) == {o.name : o \in {x \in Range(outputs) : x.configuration # None}}

\* The invocations of the configuration tool among `cs` that change the layout.
Configurations(cs) ==
    SelectSeqIdx(cs, {i \in DOMAIN cs : cs[i].tool = "xrandr" /\ cs[i].args # <<"--prop">>})

CallsOf(cs, tools) == SelectSeqIdx(cs, {i \in DOMAIN cs : cs[i].tool \in tools})

HookTools == {"on-output-profile-change", "on-primary-output-change"}

\* C1: apply_profile(name) with name equal to the engine's current profile
\* name issues no external command at all and returns without error.
C1_ReapplyIsNoOp ==
    (Applied /\ op.name = current_profile) => (calls = <<>> /\ outcome = "ok")

\* A call that re-applies the current profile, whose sink patterns and hooks
\* would otherwise have been used.
C1_Witness ==
    /\ Applied /\ op.name = current_profile /\ op.name # ""
    /\ op.on_change_exists /\ op.on_primary_exists
    /\ Requested.pactl_sink_option_regexes # <<>>
    /\ calls = <<>> /\ outcome = "ok"

\* The profile asked for names none of the outputs the held screen reports
\* connected.
DefinesNoConnectedOutput ==
    /\ Applied /\ HasKey(settings.profiles, op.name)
    /\ Range(Keys(Requested.outputs)) \cap ConnectedNames(screen) = {}

\* C2, as claimed: apply_profile(name) for a profile that configures none of
\* the connected outputs fails with NoOutputEnabled and issues no external
\* command, for every screen state.
C2_Original ==
    DefinesNoConnectedOutput => (outcome = NoOutputEnabled /\ calls = <<>>)

\* C2, amended: such a call issues no external command in any screen state;
\* it fails with NoOutputEnabled when the name differs from the current
\* profile and the held screen's primary output resolves, returns as the
\* no-op when the name is the current profile, and otherwise fails with the
\* primary-output resolution error.
C2_NoConnectedOutput ==
    DefinesNoConnectedOutput =>
        /\ calls = <<>>
        /\ outcome = IF op.name = current_profile THEN "ok"
                     ELSE IF ActiveNames(screen.outputs) = {}
                     THEN "LookupError: no primary output because no active outputs"
                     ELSE NoOutputEnabled

\* A call that raised NoOutputEnabled with both hooks present.
C2_Witness ==
    /\ DefinesNoConnectedOutput /\ op.name # current_profile
    /\ ActiveNames(screen.outputs) # {}
    /\ op.on_change_exists /\ op.on_primary_exists /\ op.fail = "none"
    /\ outcome = NoOutputEnabled /\ calls = <<>>

\* C3: no step takes the display from at least one active output to none,
\* and every configuration command issued enables (--mode) at least one
\* output the held screen reports connected.
C3_NeverBlank ==
    [][/\ ActiveNames(display) # {} => ActiveNames(display') # {}
       /\ \A i \in DOMAIN Configurations(calls') :
              LET args == Configurations(calls')[i].args
              IN  \E j \in DOMAIN args :
                      /\ j >= 3 /\ args[j] = "--mode" /\ args[j - 2] = "--output"
                      /\ args[j - 1] \in ConnectedNames(screen)]_vars

\* A successful apply whose command turned an output off.
C3_Witness ==
    /\ Applied /\ outcome = "ok" /\ Configurations(calls) # <<>>
    /\ \E j \in DOMAIN Configurations(calls)[1].args :
           Configurations(calls)[1].args[j] = "--off"
    /\ ActiveNames(display) # {}

\* The argument list of a configuration command cut into its directives:
\* each starts at an "--output".
RECURSIVE Directives(_)
Directives(args) ==
    IF args = <<>> THEN <<>>
    ELSE LET starts == {j \in 2..Len(args) : args[j] = "--output"}
             last == IF starts = {} THEN Len(args)
                     ELSE (CHOOSE j \in starts : \A k \in starts : j <= k) - 1
         IN  <<SubSeq(args, 1, last)>> \o Directives(SubSeq(args, last + 1, Len(args)))

\* A directive without its primary mark.
Unmarked(directive) == SelectSeqIdx(directive, {j \in DOMAIN directive : directive[j] # "--primary"})

\* The directive C4 states for the connected output `output_name`: resolution,
\* refresh rate if the profile gives one, position; or the disable directive.
ClaimedDirective(output_name) ==
    LET cfg == Get(Requested.outputs, output_name).configuration
    IN  IF HasKey(Requested.outputs, output_name)
        THEN <<"--output", output_name, "--mode", ResolutionStr(cfg.mode.resolution)>>
             \o (IF cfg.mode.refresh_rate # None
                 THEN <<"--rate", DecimalStr(cfg.mode.refresh_rate)>>
                 ELSE <<>>)
             \o <<"--pos", to_cli_str(cfg.position)>>
        ELSE <<"--output", output_name, "--off">>

\* C4, as claimed: for a name different from the current profile the command
\* assembled has exactly one directive per connected output and none for any
\* other output -- resolution, refresh rate if present, and position for an
\* output the profile specifies, the disable directive for one it does not --
\* and the whole command is one invocation of the configuration tool.
C4_Original ==
    (Applied /\ op.name # current_profile) =>
        /\ Len(Configurations(calls)) <= 1
        /\ outcome = "ok" => Len(Configurations(calls)) = 1
        /\ \A i \in DOMAIN Configurations(calls) :
               LET directives == Directives(Configurations(calls)[i].args)
                   given == {Unmarked(directives[j]) : j \in DOMAIN directives}
               IN  /\ Len(directives) = Cardinality(ConnectedNames(screen))
                   /\ \A n \in ConnectedNames(screen) : ClaimedDirective(n) \in given

\* The resolution the claim C5 states for the held screen: the profiles whose
\* output names are exactly the active output names.
ExactMatches ==
    {i \in DOMAIN settings.profiles :
         Range(Keys(settings.profiles[i].value.outputs)) = ActiveNames(screen.outputs)}

\* C5: the current profile name is the name of a profile whose output-name key
\* set equals the set of active output names, one of greatest name length
\* among those; it is empty when no profile matches exactly.
C5_CurrentProfile ==
    IF ExactMatches = {} THEN current_profile = ""
    ELSE /\ \E i \in ExactMatches : settings.profiles[i].key = current_profile
         /\ \A i \in ExactMatches : Len(settings.profiles[i].key) <= Len(current_profile)

\* Two profiles match the active outputs, and the longer name, declared
\* second, is the current profile.
C5_Witness ==
    /\ op.kind = "update_state" /\ outcome = "ok"
    /\ Cardinality(ExactMatches) = 2
    /\ Len(settings.profiles[1].key) < Len(settings.profiles[2].key)
    /\ current_profile = settings.profiles[2].key

\* The rules whose required outputs are all connected in the held screen.
QualifyingRules ==
    {i \in DOMAIN settings.default_profiles :
         Range(settings.default_profiles[i].connected_output_names)
             \subseteq ConnectedNames(screen)}

\* C6: the default profile name is the profile name of a rule whose required
\* outputs are a subset of the connected output names, of greatest name
\* length among all such rules; it is empty when no rule qualifies.
C6_DefaultProfile ==
    IF QualifyingRules = {} THEN default_profile = ""
    ELSE /\ \E i \in QualifyingRules :
                settings.default_profiles[i].profile_name = default_profile
         /\ \A i \in QualifyingRules :
                Len(settings.default_profiles[i].profile_name) <= Len(default_profile)

\* Two rules qualify, and the longer profile name, of the rule declared
\* second, is the default profile.
C6_Witness ==
    /\ op.kind = "update_state" /\ outcome = "ok"
    /\ Cardinality(QualifyingRules) = 2
    /\ Len(settings.default_profiles[1].profile_name)
           < Len(settings.default_profiles[2].profile_name)
    /\ default_profile = settings.default_profiles[2].profile_name

\* The name next_valid_profile starts from: the given one, else the current.
WalkStart == IF op.name # "" THEN op.name ELSE current_profile

\* The walk C7 states: the names after the start in declared order, wrapping
\* around, the start itself left out; all names when there is no start.
ClaimedWalk ==
    LET names == Keys(settings.profiles)
        n == Len(names)
        k == CHOOSE i \in DOMAIN names : names[i] = WalkStart
    IN  IF WalkStart = "" THEN names
        ELSE [i \in 1..(n - 1) |-> names[((k - 1 + i) % n) + 1]]

\* The positions of the walk whose profile names only connected outputs.
WalkQualifying ==
    {i \in DOMAIN ClaimedWalk :
         Range(Keys(Get(settings.profiles, ClaimedWalk[i]).outputs))
             \subseteq ConnectedNames(screen)}

\* C7: next_valid_profile(name) returns the first profile of the walk whose
\* output keys are all connected, empty when none qualifies, and never the
\* profile it started from.
C7_NextValidProfile ==
    (/\ op.kind = "next_valid_profile"
     /\ WalkStart = "" \/ HasKey(settings.profiles, WalkStart)) =>
        /\ outcome = "ok"
        /\ IF WalkQualifying = {} THEN result = ""
           ELSE /\ result = ClaimedWalk[CHOOSE i \in WalkQualifying :
                                            \A j \in WalkQualifying : i <= j]
                /\ result # WalkStart

\* A walk that started from the second of three profiles, with the first
\* and the third both qualifying: the third, walked first, is returned.
C7_Witness ==
    /\ op.kind = "next_valid_profile" /\ op.name # ""
    /\ Len(settings.profiles) = 3
    /\ op.name = settings.profiles[2].key
    /\ Len(ClaimedWalk) = 2
    /\ WalkQualifying = {1, 2}
    /\ result = settings.profiles[3].key

\* What a fresh engine resolves over the topology as it now is.
FreshCurrent == get_current_profile(settings, Screen(display))

\* C8, as claimed: after apply_profile(P) succeeded and the display tool
\* carried out the command, a fresh engine resolves the current profile as P,
\* so that applying P again issues no external command.
C8_Original ==
    (Applied /\ outcome = "ok" /\ Configurations(calls) # <<>>) =>
        /\ FreshCurrent = op.name
        /\ apply_profile(settings, Screen(display), FreshCurrent, op.name, display,
                         sinks, default_sink, TRUE, TRUE, 1, "none").calls = <<>>

\* The profiles of `stg` with the same output names as the profile `name`.
SameOutputs(stg, name) ==
    {i \in DOMAIN stg.profiles :
         Range(Keys(stg.profiles[i].value.outputs))
             = Range(Keys(Get(stg.profiles, name).outputs))}

\* No profile with the same output names as `name` has a longer name, nor an
\* equally long one declared earlier.
Preferred(stg, name) ==
    \A i \in SameOutputs(stg, name) :
        \/ Len(stg.profiles[i].key) < Len(name)
        \/ Len(stg.profiles[i].key) = Len(name)
           /\ i >= (CHOOSE j \in DOMAIN stg.profiles : stg.profiles[j].key = name)

\* C8, amended: after a successful apply_profile(P) whose command was carried
\* out, a fresh engine resolves the current profile as P exactly when the
\* outputs P names that are not connected are exactly the disconnected
\* outputs that were still active, and no profile with the same output names
\* has a longer name or an equally long name declared earlier; when it
\* does, applying P again issues no external command.
C8_Idempotent ==
    [][(/\ op'.kind = "apply_profile" /\ outcome' = "ok"
        /\ Configurations(calls') # <<>>) =>
           LET keys == Range(Keys(Get(settings.profiles, op'.name).outputs))
               connected == ConnectedNames(Screen(display))
               fresh == get_current_profile(settings, Screen(display'))
           IN  /\ fresh = op'.name <=>
                      /\ keys \ connected = ActiveNames(display) \ connected
                      /\ Preferred(settings, op'.name)
               /\ fresh = op'.name =>
                      apply_profile(settings, Screen(display'), fresh, op'.name,
                                    display', sinks, default_sink', TRUE, TRUE, 1,
                                    "none").calls = <<>>]_vars

\* A successful apply that turned an output off, after which a fresh engine
\* resolves the applied profile.
C8_Witness ==
    /\ Applied /\ outcome = "ok" /\ Configurations(calls) # <<>>
    /\ \E j \in DOMAIN Configurations(calls)[1].args :
           Configurations(calls)[1].args[j] = "--off"
    /\ FreshCurrent = op.name
    /\ current_profile # op.name

\* C9: when the configuration tool exits non-zero inside apply_profile, the
\* call ends with that failure after the pre-change identifier read and the
\* configuration command alone -- no sink query, no set-default-sink, no
\* settle poll, no hook -- and the held screen, current profile, default
\* profile and candidate sinks are what they were before the call.
C9_ConfigurationFailure ==
    [][(/\ op'.kind = "apply_profile" /\ op'.fail = "xrandr"
        /\ Configurations(calls') # <<>>) =>
           /\ outcome' = "RuntimeError"
           /\ Len(calls') = 2
           /\ calls'[1] = XPropCall
           /\ calls'[2].tool = "xrandr"
           /\ CallsOf(calls', {"pactl"} \cup HookTools) = <<>>
           /\ UNCHANGED <<screen, current_profile, default_profile,
                          candidate_pactl_sinks, settings>>]_vars

\* A failed configuration command of a profile that has sink patterns, with
\* both hooks present.
C9_Witness ==
    /\ Applied /\ op.fail = "xrandr" /\ outcome = "RuntimeError"
    /\ Configurations(calls) # <<>>
    /\ Requested.pactl_sink_option_regexes # <<>>
    /\ op.on_change_exists /\ op.on_primary_exists

\* The sinks the sink query returns that the pattern matches, by position.
Matches(pattern) ==
    {i \in DOMAIN get_sinks(sinks) : RegexMatch(pattern, get_sinks(sinks)[i].name)}

\* The positions of the requested profile's patterns that match some sink.
Hits ==
    {k \in DOMAIN Requested.pactl_sink_option_regexes :
         Matches(Requested.pactl_sink_option_regexes[k]) # {}}

FirstHit == CHOOSE k \in Hits : \A j \in Hits : k <= j

\* C10: with no tool failing, the sink commands of an apply_profile whose
\* configuration command went out are one sink query per pattern tried, in
\* list order up to the first pattern that matches a sink, then exactly one
\* set-default-sink for the first sink in listing order that pattern
\* matches; when no pattern matches, one query per pattern, no
\* set-default-sink, and the call succeeds.
C10_SinkSelection ==
    (Applied /\ op.fail = "none" /\ Configurations(calls) # <<>>) =>
        LET regexes == Requested.pactl_sink_option_regexes
            first == Matches(regexes[FirstHit])
            sink == get_sinks(sinks)[CHOOSE i \in first : \A j \in first : i <= j]
        IN  /\ outcome = "ok"
            /\ CallsOf(calls, {"pactl"}) =
                   IF Hits = {} THEN [k \in 1..Len(regexes) |-> ListSinksCall]
                   ELSE [k \in 1..FirstHit |-> ListSinksCall]
                        \o <<Call("pactl", <<"set-default-sink", sink.name>>)>>
            /\ Hits # {} => default_sink = sink.name

\* Of three patterns the first matched nothing and was skipped; the second
\* matched three sinks, and the first of them in listing order was made
\* default; the third, which matches another sink, was not tried.
C10_Witness ==
    /\ Applied /\ op.fail = "none" /\ outcome = "ok" /\ Configurations(calls) # <<>>
    /\ Len(Requested.pactl_sink_option_regexes) = 3
    /\ Hits = {2, 3}
    /\ Cardinality(Matches(Requested.pactl_sink_option_regexes[2])) = 3
    /\ Matches(Requested.pactl_sink_option_regexes[3])
           # {CHOOSE i \in Matches(Requested.pactl_sink_option_regexes[2]) :
                  \A j \in Matches(Requested.pactl_sink_option_regexes[2]) : i <= j}
    /\ Len(CallsOf(calls, {"pactl"})) = 3

\* The apply_profile call came to its settle step with the profile-changed
\* hook present, and no invocation before the hook failed.
ReachedSettle ==
    /\ Applied /\ op.on_change_exists /\ Configurations(calls) # <<>>
    /\ outcome = "ok" \/ op.fail \in {"on_change", "on_primary"}

\* The positions in `calls` of the polls of the window-system identifier:
\* the reads after the configuration command.
Polls == {i \in DOMAIN calls : i > 2 /\ calls[i] = XPropCall}

ChangeHooks == {i \in DOMAIN calls : calls[i].tool = "on-output-profile-change"}

\* C11: when the profile-changed hook exists, apply_profile polls the
\* identifier at most 50 times (a 5000 ms budget at 100 ms), stops at the
\* first poll that sees a new value, and in every case, the timeout
\* included, then invokes the hook exactly once with the new profile name
\* as its single argument.
C11_SettleAndHook ==
    ReachedSettle =>
        /\ Cardinality(Polls) <= 50
        /\ Cardinality(Polls) = IF op.settle \in 1..50 THEN op.settle ELSE 50
        /\ Cardinality(ChangeHooks) = 1
        /\ \A h \in ChangeHooks :
               /\ calls[h].args = <<op.name>>
               /\ \A i \in Polls : i < h

\* No poll saw a new identifier: fifty polls, then the hook all the same.
C11_Witness ==
    /\ ReachedSettle /\ op.settle = 0 /\ outcome = "ok"
    /\ Cardinality(Polls) = 50
    /\ Cardinality(ChangeHooks) = 1

\* The invocations of the primary-output-changed hook among `cs`.
PrimaryHooks(cs) == CallsOf(cs, {"on-primary-output-change"})

\* C12, as claimed: with the primary-output-changed hook present,
\* apply_profile invokes it exactly when the resolved primary output of the
\* display after the apply differs from the one before it, and the name it
\* passes is the output that is primary afterwards.
C12_Original ==
    [][(/\ op'.kind = "apply_profile" /\ op'.on_primary_exists
        /\ Configurations(calls') # <<>>
        /\ outcome' = "ok" \/ op'.fail = "on_primary"
        /\ primary_output(Screen(display)).ok
        /\ primary_output(Screen(display')).ok) =>
           LET before == primary_output(Screen(display)).output.name
               after == primary_output(Screen(display')).output.name
           IN  /\ PrimaryHooks(calls') # <<>> <=> before # after
               /\ PrimaryHooks(calls') # <<>> =>
                      PrimaryHooks(calls') =
                          <<Call("on-primary-output-change", <<after>>)>>]_vars

-----------------------------------------------------------------------------
(* Properties of the parser and of the parsed model, under ParseSpec.      *)

Returned == parsed.status = "returned"

Failed == parsed.status = "failed"

\* The lines the loop has read of the report printed so far
Lines == lines_read(report)

\* The positions, in report order, of the configured outputs of a Screen and
\* of those among them that are flagged primary
ActiveAt(scr) == {i \in DOMAIN scr.outputs : scr.outputs[i].configuration # None}

PrimaryAt(scr) == {i \in ActiveAt(scr) : scr.outputs[i].primary}

\* C13: Screen.primary_output fails with the multiple-primary error when
\* more than one output is flagged primary and configured; otherwise it
\* returns the one flagged and configured output if there is one, otherwise
\* the first configured output in report order, and it fails with the
\* no-active-output error when no output is configured; an output it returns
\* has a configuration.
C13_PrimaryOutput ==
    Returned =>
        LET scr == parsed.screen
            found == primary_output(scr)
            First(S) == CHOOSE i \in S : \A j \in S : i <= j
        IN  /\ Cardinality(PrimaryAt(scr)) > 1 =>
                   /\ ~found.ok
                   /\ found.error = "AssertionError: Multiple primary outputs!"
            /\ Cardinality(PrimaryAt(scr)) = 1 =>
                   /\ found.ok
                   /\ found.output = scr.outputs[First(PrimaryAt(scr))]
            /\ (PrimaryAt(scr) = {} /\ ActiveAt(scr) # {}) =>
                   /\ found.ok
                   /\ found.output = scr.outputs[First(ActiveAt(scr))]
            /\ ActiveAt(scr) = {} =>
                   /\ ~found.ok
                   /\ found.error = "LookupError: no primary output because no active outputs"
            /\ found.ok => found.output.configuration # None

\* A Screen whose first output is flagged primary without a configuration
\* and whose second output is configured and not flagged: the second one is
\* the primary output.
C13_Witness ==
    /\ Returned
    /\ Len(parsed.screen.outputs) = 2
    /\ parsed.screen.outputs[1].primary
    /\ parsed.screen.outputs[1].configuration = None
    /\ ~parsed.screen.outputs[2].primary
    /\ primary_output(parsed.screen).ok
    /\ primary_output(parsed.screen).output = parsed.screen.outputs[2]

\* C14 (as claimed): a Screen returned by the parser never has two or more
\* outputs that are flagged primary and configured.
C14_Original == Returned => Cardinality(PrimaryAt(parsed.screen)) <= 1

\* C15 (as claimed): the output names of a Screen returned by the parser are
\* pairwise distinct.
C15_Original ==
    Returned =>
        \A i, j \in DOMAIN parsed.screen.outputs :
            parsed.screen.outputs[i].name = parsed.screen.outputs[j].name => i = j

\* The positions of the screen headers of the report read so far
ScreenHeaders == {i \in DOMAIN Lines : Lines[i].kind = "screen"}

\* The last header before line i is an output header.
OpenOutput(i) ==
    \E j \in 1..(i - 1) :
        /\ Lines[j].kind = "output"
        /\ \A k \in (j + 1)..(i - 1) : Lines[k].kind \notin {"output", "screen"}

\* A report with no EDID section and no mode line outside an output: no
\* line of it is rejected for a reason other than the screen headers.
PlainReport ==
    \A i \in DOMAIN Lines :
        /\ Lines[i].kind # "edid"
        /\ Lines[i].kind = "modes" => OpenOutput(i)

\* C16: the parse fails once a second screen header has been read, and a
\* report with no screen header never yields a Screen: read to its end it
\* fails with the missing-screen error; a Screen that is returned carries
\* the name and the combined resolution of the one screen header.
C16_ScreenHeader ==
    /\ Cardinality(ScreenHeaders) >= 2 =>
           /\ Failed
           /\ PlainReport => parsed.error = "AssertionError: multiple screens!"
    /\ (ScreenHeaders = {} /\ parsed.status # "reading") =>
           /\ Failed
           /\ PlainReport =>
                  parsed.error = "AssertionError: display (virtual screen) missing fields."
    /\ Returned =>
           \E i \in ScreenHeaders :
               /\ ScreenHeaders = {i}
               /\ parsed.screen.name = Lines[i].name
               /\ parsed.screen.combined_resolution =
                      Resolution(Lines[i].width, Lines[i].height)

\* Two different screen headers with an output between them: the parse has
\* failed on the second.
C16_Witness ==
    /\ Failed
    /\ parsed.error = "AssertionError: multiple screens!"
    /\ \E i, j \in ScreenHeaders : i < j /\ Lines[i] # Lines[j]
    /\ \E i \in DOMAIN Lines : Lines[i].kind = "output"

\* The monitors built so far: those of the outputs flushed, and the one the
\* end of the report builds for the open output (line 501)
ParsedMonitors ==
    LET flushed == add_pending_output(parser)
        outputs == IF Returned THEN parsed.screen.outputs
                   ELSE IF flushed.ok THEN flushed.parser.outputs
                   ELSE parser.outputs
    IN  {outputs[i].monitor : i \in DOMAIN outputs} \ {None}

\* Mode a comes before mode b in descending (resolution, refresh rate) order.
Descends(a, b) ==
    \/ a.resolution.width > b.resolution.width
    \/ /\ a.resolution.width = b.resolution.width
       /\ a.resolution.height > b.resolution.height
    \/ /\ a.resolution = b.resolution
       /\ a.refresh_rate.dec > b.refresh_rate.dec

\* C17: sorted_modes lists every reported mode exactly once: the preferred
\* mode first, then the other modes at its resolution by descending refresh
\* rate, then the remaining modes in descending (resolution, refresh rate)
\* order; default_mode is the preferred mode if there is one, otherwise the
\* first of sorted_modes.
C17_SortedModes ==
    \A monitor \in ParsedMonitors :
        LET sorted == sorted_modes(monitor)
            preferred == monitor.preferred_mode
            grouped == IF preferred = None THEN {}
                       ELSE {i \in DOMAIN sorted :
                                 sorted[i].resolution = preferred.resolution}
        IN  /\ Range(sorted) = monitor.reported_modes
            /\ Len(sorted) = Cardinality(monitor.reported_modes)
            /\ preferred # None => sorted[1] = preferred
            /\ grouped = 1..Cardinality(grouped)
            /\ \A i, j \in DOMAIN sorted :
                   (1 < i /\ i < j /\ j \in grouped) =>
                       sorted[i].refresh_rate.dec > sorted[j].refresh_rate.dec
            /\ \A i, j \in DOMAIN sorted :
                   (i < j /\ i \notin grouped) => Descends(sorted[i], sorted[j])
            /\ preferred # None => default_mode(monitor) = [ok |-> TRUE, mode |-> preferred]
            /\ (preferred = None /\ sorted # <<>>) =>
                   default_mode(monitor) = [ok |-> TRUE, mode |-> sorted[1]]

\* A monitor whose preferred mode is neither at the largest resolution nor
\* at the highest rate of its resolution, with modes at two more resolutions
\* that were listed smallest first: 1920x1080 at 50 comes first, then 75,
\* then the two modes at 2560x1440, then the two at 1280x720.
C17_Witness ==
    \E monitor \in ParsedMonitors :
        /\ monitor.preferred_mode = Mode(Resolution(1920, 1080), Decimal(50))
        /\ sorted_modes(monitor) =
               <<Mode(Resolution(1920, 1080), Decimal(50)),
                 Mode(Resolution(1920, 1080), Decimal(75)),
                 Mode(Resolution(2560, 1440), Decimal(60)),
                 Mode(Resolution(2560, 1440), Decimal(50)),
                 Mode(Resolution(1280, 720), Decimal(60)),
                 Mode(Resolution(1280, 720), Decimal(50))>>
        /\ default_mode(monitor).mode = monitor.preferred_mode
        /\ Len(Lines) = 4
        /\ Lines[3].width = 1280
        /\ Lines[4].width = 2560

\* The open output has an EDID section read: its lines are decoded when the
\* output is closed by the next header or by the end of the report.
PendingEdid == parser.output_name # "" /\ parser.output_edid_lines # <<>>

PendingHex == join(parser.output_edid_lines)

\* The error is the one EDIDInfo raises for a buffer it rejects.
InvalidEdid(error) ==
    /\ Len(error) >= 35
    /\ SubSeq(error, 1, 35) = "AssertionError: Invalid edid data: "

\* The check as claimed: at least 128 bytes that begin with the magic header
Accepted(raw) ==
    /\ Len(raw) >= 128
    /\ \A i \in 1..8 : raw[i] = <<0, 255, 255, 255, 255, 255, 255, 0>>[i]

\* C18: constructing an EDIDInfo fails with the invalid-EDID error when the
\* buffer has fewer than 128 bytes or its first 8 bytes are not the magic
\* header, and succeeds otherwise; a parse in which an EDID section is
\* rejected does not return a Screen, and every EDID of a returned Screen
\* passed the check.
C18_EdidCheck ==
    /\ (PendingEdid /\ fromhex(PendingHex).ok) =>
           LET raw == fromhex(PendingHex).bytes
           IN  /\ EDIDInfo(raw).ok <=> Accepted(raw)
               /\ ~Accepted(raw) => InvalidEdid(EDIDInfo(raw).error)
               /\ (~Accepted(raw) /\ parsed.status # "reading") => Failed
    /\ (PendingEdid /\ ~fromhex(PendingHex).ok /\ parsed.status # "reading") => Failed
    /\ \A monitor \in ParsedMonitors :
           monitor.edid # None => Accepted(monitor.edid.raw)

\* A dump of 128 bytes whose eighth byte is wrong was read for the open
\* output and the parse failed with the invalid-EDID error.
C18_Witness ==
    /\ PendingEdid
    /\ fromhex(PendingHex).ok
    /\ Len(fromhex(PendingHex).bytes) = 128
    /\ fromhex(PendingHex).bytes[8] # 0
    /\ Failed
    /\ InvalidEdid(parsed.error)

\* One of the four descriptor blocks at offset 54 begins with two zero bytes
\* and has a non-zero third byte.
BadReserved(raw) ==
    \E k \in 0..3 :
        /\ raw[54 + 18 * k + 1] = 0
        /\ raw[54 + 18 * k + 2] = 0
        /\ raw[54 + 18 * k + 3] # 0

\* C19 (as claimed): no EDIDInfo is built from a buffer with a display
\* descriptor whose reserved byte is non-zero, so no returned Screen holds
\* one.
C19_Original ==
    \A monitor \in ParsedMonitors :
        monitor.edid # None => ~BadReserved(monitor.edid.raw)

-----------------------------------------------------------------------------
(* Properties of the settings file, under SettingsSpec.                    *)

\* C20 (as claimed): writing back the Settings loaded from a document
\* succeeds and gives that document again.
C20_Original ==
    stored.status # "none" => /\ stored.status = "ok"
                              /\ stored.document = document

-----------------------------------------------------------------------------
(* Properties of the engine's interactions, under Spec.                    *)

\* The stage of apply_profile the i-th invocation belongs to: 1 the read of
\* the pre-change identifier, 2 the configuration command, 3 sink selection,
\* 4 settle polling, 5 the profile-changed hook, 6 the primary-changed hook.
Stage(i) ==
    CASE calls[i].tool = "xprop" -> IF i = 1 THEN 1 ELSE 4
      [] calls[i].tool = "xrandr" -> 2
      [] calls[i].tool = "pactl" -> 3
      [] calls[i].tool = "on-output-profile-change" -> 5
      [] calls[i].tool = "on-primary-output-change" -> 6

StageAt(n) == {i \in DOMAIN calls : Stage(i) = n}

\* C25: a successful apply_profile run makes its invocations in the order
\* identifier read, one configuration command, sink selection, settle
\* polling, profile-changed hook, primary-changed hook; in no run is there a
\* sink command, poll or hook before the configuration command, nor any
\* after a configuration command that failed.
C25_InteractionOrder ==
    (Applied /\ calls # <<>>) =>
        /\ outcome = "ok" =>
               /\ \A i, j \in DOMAIN calls : i < j => Stage(i) <= Stage(j)
               /\ StageAt(1) = {1}
               /\ StageAt(2) = {2}
               /\ Cardinality(StageAt(5)) <= 1
               /\ Cardinality(StageAt(6)) <= 1
        /\ \A i \in DOMAIN calls :
               Stage(i) >= 3 => /\ 2 \in StageAt(2)
                                /\ i > 2
                                /\ op.fail # "xrandr"

\* A successful run that went through all six stages.
C25_Witness ==
    /\ Applied /\ outcome = "ok"
    /\ \A n \in 1..6 : StageAt(n) # {}
    /\ \E i \in StageAt(3) : calls[i].args[1] = "set-default-sink"

\* The invocations of apply_profile that come after sink selection, and any
\* second configuration command
AfterSinks ==
    {i \in DOMAIN calls : i > 2 /\ calls[i].tool \in {"xprop", "xrandr"} \cup HookTools}

\* C26: when listing the sinks or setting the default sink fails after the
\* configuration command succeeded, apply_profile ends with that failure:
\* the failed sink invocation is the last invocation, so there is no settle
\* poll, no hook and no further configuration command, and the outputs stay
\* as the configuration command left them.
C26_SinkFailure ==
    [][(/\ op'.kind = "apply_profile"
        /\ \/ op'.fail = "pactl_list" /\ ListSinksCall \in Range(calls')
           \/ /\ op'.fail = "pactl_set"
              /\ \E i \in DOMAIN calls' : calls'[i].args[1] = "set-default-sink") =>
           /\ outcome' = "RuntimeError"
           /\ calls'[1] = XPropCall
           /\ Len(Configurations(calls')) = 1
           /\ calls'[2] = Configurations(calls')[1]
           /\ \A i \in 3..Len(calls') : calls'[i].tool = "pactl"
           /\ calls'[Len(calls')].args[1] =
                  IF op'.fail = "pactl_list" THEN "-f" ELSE "set-default-sink"
           /\ display' = XRandrExec(display, calls'[2].args, 0)]_vars

\* set-default-sink failed with both hook scripts present, after a
\* configuration command that changed the outputs.
C26_Witness ==
    /\ Applied /\ op.fail = "pactl_set" /\ outcome = "RuntimeError"
    /\ op.on_change_exists /\ op.on_primary_exists
    /\ calls[Len(calls)].args[1] = "set-default-sink"
    /\ Screen(display) # screen

-----------------------------------------------------------------------------
(* Properties of the parser's scan, under ParseSpec.                       *)

\* The positions of the output headers of the report read so far, the k-th
\* of them, and the end of the lines that follow a header: the next header
\* of either kind, or the end of the report
OutputHeaders == {i \in DOMAIN Lines : Lines[i].kind = "output"}

HeaderAt(k) ==
    CHOOSE h \in OutputHeaders : Cardinality({j \in OutputHeaders : j <= h}) = k

BlockEnd(h) ==
    LET later == {i \in DOMAIN Lines : i > h /\ Lines[i].kind \in {"output", "screen"}}
    IN  IF later = {} THEN Len(Lines) + 1
        ELSE CHOOSE i \in later : \A j \in later : i <= j

\* C27: the Screen returned has exactly one Output per output header, in
\* report order (the last one included, none twice), and each Output has
\* the name, connected flag, primary flag and geometry of its own header.
C27_OneOutputPerHeader ==
    Returned =>
        /\ Len(parsed.screen.outputs) = Cardinality(OutputHeaders)
        /\ \A k \in DOMAIN parsed.screen.outputs :
               LET output == parsed.screen.outputs[k]
                   header == Lines[HeaderAt(k)]
               IN  /\ output.name = header.name
                   /\ output.connected = (header.state = "connected")
                   /\ output.primary = header.primary
                   /\ (output.configuration = None) = (header.geometry = None)
                   /\ header.geometry # None =>
                          /\ output.configuration.mode.resolution =
                                 Resolution(header.geometry.width, header.geometry.height)
                          /\ output.configuration.position =
                                 Position(header.geometry.x, header.geometry.y)

\* Three output headers: a disconnected output, one flagged primary without
\* geometry, and a configured one closed by the end of the report.
C27_Witness ==
    /\ Returned
    /\ Len(parsed.screen.outputs) = 3
    /\ Lines[Len(Lines)].kind = "output"
    /\ parsed.screen.outputs[2].primary
    /\ parsed.screen.outputs[2].configuration = None
    /\ parsed.screen.outputs[3].configuration # None
    /\ ~parsed.screen.outputs[1].connected

\* Line i is an indented hex line of an EDID section: an EDID marker comes
\* before it with nothing but hex lines between.
InEdidSection(i) ==
    /\ Lines[i].kind = "hex"
    /\ \E m \in 1..(i - 1) :
           /\ Lines[m].kind = "edid"
           /\ \A x \in (m + 1)..(i - 1) : Lines[x].kind = "hex"

\* The lines that follow the header at h, up to the next header
Block(h) == {i \in DOMAIN Lines : h < i /\ i < BlockEnd(h)}

\* The hex digits of the EDID sections that follow the header at h
RECURSIVE SectionHex(_, _)
SectionHex(i, end) ==
    IF i >= end THEN ""
    ELSE (IF InEdidSection(i) THEN Lines[i].hex ELSE "") \o SectionHex(i + 1, end)

\* The modes listed by the mode lines that follow the header at h
BlockModes(h) ==
    UNION {{Mode(Resolution(Lines[i].width, Lines[i].height), Lines[i].rates[t].rate) :
                t \in DOMAIN Lines[i].rates} :
           i \in {j \in Block(h) : Lines[j].kind = "modes"}}

\* C28 (as claimed): the EDID of an Output is made of the hex lines of the
\* EDID sections between its own header and the next header, and of nothing
\* else, and its modes come from the mode lines between those headers.
C28_Original ==
    Returned =>
        \A k \in DOMAIN parsed.screen.outputs :
            LET monitor == parsed.screen.outputs[k].monitor
                own == SectionHex(HeaderAt(k) + 1, BlockEnd(HeaderAt(k)))
            IN  /\ (monitor # None /\ monitor.edid # None) =>
                       /\ own # ""
                       /\ monitor.edid.raw = fromhex(own).bytes
                /\ (monitor = None \/ monitor.edid = None) => own = ""
                /\ monitor # None => monitor.reported_modes = BlockModes(HeaderAt(k))
                /\ monitor = None => BlockModes(HeaderAt(k)) = {}

\* The refresh-rate tokens, as <<line, position in the line>>, of the mode
\* lines that follow the header at h, and the last of a set of tokens
Tokens(h) ==
    UNION {{<<i, t>> : t \in DOMAIN Lines[i].rates} :
           i \in {j \in Block(h) : Lines[j].kind = "modes"}}

LastToken(S) ==
    CHOOSE a \in S : \A b \in S : b[1] < a[1] \/ (b[1] = a[1] /\ b[2] <= a[2])

TokenMode(a) ==
    Mode(Resolution(Lines[a[1]].width, Lines[a[1]].height),
         Lines[a[1]].rates[a[2]].rate)

\* C29: of the mode lines read for an output, every token adds the Mode of
\* the line's resolution and the token's rate to the reported modes, the
\* last token marked + gives the preferred mode and the last token marked *
\* the current refresh rate: the Configuration of an output whose header has
\* geometry carries the header's resolution and position with that rate, or
\* no rate when no token is marked *.
C29_ModeTokens ==
    Returned =>
        \A k \in DOMAIN parsed.screen.outputs :
            LET output == parsed.screen.outputs[k]
                h == HeaderAt(k)
                current == {a \in Tokens(h) : Lines[a[1]].rates[a[2]].current}
                preferred == {a \in Tokens(h) : Lines[a[1]].rates[a[2]].preferred}
            IN  /\ Tokens(h) # {} =>
                       /\ output.monitor # None
                       /\ output.monitor.reported_modes = {TokenMode(a) : a \in Tokens(h)}
                       /\ output.monitor.preferred_mode =
                              IF preferred = {} THEN None
                              ELSE TokenMode(LastToken(preferred))
                /\ Lines[h].geometry # None =>
                       output.configuration =
                           Configuration(
                               Mode(Resolution(Lines[h].geometry.width,
                                               Lines[h].geometry.height),
                                    IF current = {} THEN None
                                    ELSE Lines[LastToken(current)[1]]
                                             .rates[LastToken(current)[2]].rate),
                               Position(Lines[h].geometry.x, Lines[h].geometry.y))

\* An output with geometry and two mode lines, both with a token marked +,
\* the first also with one marked *: the preferred mode is the later one.
C29_Witness ==
    /\ Returned
    /\ \E k \in DOMAIN parsed.screen.outputs :
           /\ parsed.screen.outputs[k].configuration # None
           /\ parsed.screen.outputs[k].configuration.mode.refresh_rate = Decimal(60)
           /\ parsed.screen.outputs[k].monitor # None
           /\ parsed.screen.outputs[k].monitor.preferred_mode =
                  Mode(Resolution(1920, 1080), Decimal(50))
           /\ Cardinality(parsed.screen.outputs[k].monitor.reported_modes) = 4

\* The blank lines at the top of the report, which the loop does not read:
\* the printed line i is the line i - Skipped of the loop
Skipped ==
    Cardinality({i \in DOMAIN report :
                     \A j \in 1..i : report[j].kind = "blank"})

\* A mode line of the report is an orphan when no output is open where it
\* stands: no header precedes it, or the last header before it is a screen
\* header.
OrphanModeLines ==
    {i \in DOMAIN report : report[i].kind = "modes" /\ ~OpenOutput(i - Skipped)}

\* C30 (as claimed): a report with a mode line where no output is open makes
\* the parse fail: no Screen is returned from it, the line is not dropped.
C30_Original == Returned => OrphanModeLines = {}

-----------------------------------------------------------------------------
(* Properties of the cycle operations, under CycleSpec.                    *)

\* The outputs the claim cycles the primary output among: the current
\* profile's primary candidates, else the active outputs
PrimaryCandidates ==
    LET outputs == IF current_profile = "" THEN <<>>
                   ELSE Get(settings.profiles, current_profile).outputs
        flagged == {i \in DOMAIN outputs : outputs[i].value.primary_candidate}
    IN  IF flagged = {} THEN active_output_names(screen)
        ELSE SelectSeqIdx(Keys(outputs), flagged)

\* The candidate after `name` in candidate order, wrapping around
FollowingOutput(name) ==
    IF \E i \in DOMAIN PrimaryCandidates : PrimaryCandidates[i] = name
    THEN PrimaryCandidates[((CHOOSE i \in DOMAIN PrimaryCandidates :
                                 PrimaryCandidates[i] = name)
                            % Len(PrimaryCandidates)) + 1]
    ELSE PrimaryCandidates[1]

\* The primary-changed hook's invocation is among the calls of the step
PrimaryHookCalled ==
    \E i \in DOMAIN calls' : calls'[i].tool = "on-primary-output-change"

\* C23: on a screen with an active output cycle_primary_output succeeds and
\* makes primary the candidate after the current primary output, wrapping
\* around, and the primary-changed hook (where the script exists) is invoked
\* exactly when the new primary's name differs from the old one's.
C23_Original ==
    [][(/\ op'.kind = "cycle_primary_output"
        /\ op'.fail = "none"
        /\ active_outputs(screen) # <<>>)
       => /\ outcome' = "ok"
          /\ result' = FollowingOutput(primary_output(screen).output.name)
          /\ calls'[1] = Call("xrandr", <<"--output", result', "--primary">>)
          /\ op'.on_primary_exists =>
                 (PrimaryHookCalled <=> result' # primary_output(screen).output.name)]_vars

\* The names of the held candidate sinks, in order
CandidateNames == [i \in DOMAIN candidate_pactl_sinks |-> candidate_pactl_sinks[i].name]

\* The candidate after `sink` in candidate order, wrapping around; the first
\* candidate when `sink` is not a candidate.
FollowingSink(sink) ==
    IF \E i \in DOMAIN CandidateNames : CandidateNames[i] = sink
    THEN CandidateNames[((CHOOSE i \in DOMAIN CandidateNames : CandidateNames[i] = sink)
                         % Len(CandidateNames)) + 1]
    ELSE CandidateNames[1]

\* The patterns of the current profile (none without a current profile)
CurrentPatterns ==
    IF current_profile = "" THEN <<>>
    ELSE Get(settings.profiles, current_profile).pactl_sink_option_regexes

\* The patterns that match some sink
MatchingPatterns ==
    {i \in DOMAIN CurrentPatterns :
        \E k \in DOMAIN get_sinks(sinks) :
            RegexMatch(CurrentPatterns[i], get_sinks(sinks)[k].name)}

\* The candidates are right for the current profile: all sinks when no
\* pattern matches, else distinct sinks, one for one matching pattern at most.
CandidatesAsClaimed ==
    IF MatchingPatterns = {}
    THEN candidate_pactl_sinks = get_sinks(sinks)
    ELSE /\ candidate_pactl_sinks # <<>>
         /\ Len(candidate_pactl_sinks) <= Cardinality(MatchingPatterns)
         /\ \A i, j \in DOMAIN candidate_pactl_sinks :
                candidate_pactl_sinks[i] = candidate_pactl_sinks[j] => i = j
         /\ \E chosen \in [DOMAIN candidate_pactl_sinks -> MatchingPatterns] :
                /\ \A i, j \in DOMAIN chosen : i < j => chosen[i] < chosen[j]
                /\ \A i \in DOMAIN chosen :
                       /\ candidate_pactl_sinks[i] \in Range(get_sinks(sinks))
                       /\ RegexMatch(CurrentPatterns[chosen[i]],
                                     candidate_pactl_sinks[i].name)

\* The default sinks that n further cycles starting from `sink` set
RECURSIVE Visited(_, _)
Visited(sink, n) ==
    IF n = 0 THEN {sink}
    ELSE {sink} \cup Visited(cycle_pactl_sink(candidate_pactl_sinks, sink, "none").default_sink,
                             n - 1)

\* One successful cycle_pactl_sink step
SinkCycled ==
    /\ op'.kind = "cycle_pactl_sink"
    /\ op'.fail = "none"

\* C24: cycle_pactl_sink makes default the candidate after the current
\* default sink in candidate order, wrapping around (the first candidate when
\* the default is no candidate) and never the sink that is default already;
\* after a refresh the candidates are the sinks the current profile's
\* patterns matched, one per pattern at most and none twice, or all sinks
\* when there is no profile, no pattern or no match; and cycling as often as
\* there are candidates makes every candidate the default sink.
C24_CyclePactlSink ==
    /\ [](op.kind \in {"init", "update_state"} /\ outcome = "ok" => CandidatesAsClaimed)
    /\ [](Range(CandidateNames) \subseteq
              Visited(default_sink, Len(CandidateNames)) \cup {default_sink})
    /\ [][SinkCycled =>
             /\ outcome' = "ok"
             /\ IF CandidateNames = <<>> \/ FollowingSink(default_sink) = default_sink
                THEN /\ default_sink' = default_sink
                     /\ result' = ""
                     /\ calls' = <<GetDefaultSinkCall>>
                ELSE /\ default_sink' = FollowingSink(default_sink)
                     /\ default_sink' # default_sink
                     /\ result' = default_sink'
                     /\ calls' = <<GetDefaultSinkCall,
                                   Call("pactl", <<"set-default-sink", default_sink'>>)>>]_vars

\* Three patterns gave three candidates, in another order than the sinks
\* are listed in, the third pattern matching the sinks of the other two as
\* well; the cycle went from the second candidate to the third.
C24_Witness ==
    /\ op.kind = "cycle_pactl_sink"
    /\ outcome = "ok"
    /\ Len(CandidateNames) = 3
    /\ Cardinality(MatchingPatterns) = 3
    /\ CandidateNames # [i \in 1..3 |-> get_sinks(sinks)[i].name]
    /\ \A k \in DOMAIN get_sinks(sinks) :
           RegexMatch(CurrentPatterns[3], get_sinks(sinks)[k].name)
    /\ result = CandidateNames[3]
    /\ default_sink = CandidateNames[3]

-----------------------------------------------------------------------------
(* Properties of the command line tool, under MainSpec.                    *)

\* main has run and ended
Exited == op.kind \in Options

\* apply_profile(name) was entered with a profile to apply: its first
\* invocation, the xprop read, follows the constructor's invocations.
Applying == Len(calls) > Len(ConstructorCalls) /\ calls[Len(ConstructorCalls) + 1] = XPropCall

\* Nothing was invoked beyond the constructor's reads, the outputs are as
\* they were read
NothingApplied == calls = ConstructorCalls /\ Screen(display) = screen

\* C21: the tool exits with status 1, having applied nothing, when
\* --cycle-profile finds no valid next profile or --default-profile finds no
\* matching default profile, and with status 0 when its operation succeeds.
C21_Original ==
    Exited =>
        /\ (op.kind = "cycle_profile"
                /\ next_valid_profile(settings, screen, current_profile, "").value = "")
            => exit_code = 1 /\ NothingApplied
        /\ (op.kind = "default_profile" /\ default_profile = "")
            => exit_code = 1 /\ NothingApplied
        /\ (outcome = "ok"
                /\ ~(op.kind = "cycle_profile"
                       /\ next_valid_profile(settings, screen, current_profile, "").value = "")
                /\ ~(op.kind = "default_profile" /\ default_profile = ""))
            => exit_code = 0

\* The profile an operation chooses, as the tool's options describe it
ChosenProfile ==
    IF op.kind = "profile" THEN op.name
    ELSE IF op.kind = "default_profile" THEN default_profile
    ELSE next_valid_profile(settings, screen, current_profile, "").value

\* C22: --profile NAME, --cycle-profile and --default-profile each call
\* apply_profile with the profile name they chose: an existing profile that
\* is not the current one, on a screen where it enables an output, has its
\* xrandr command issued.
C22_Original ==
    (/\ Exited
     /\ op.kind \in {"profile", "cycle_profile", "default_profile"}
     /\ op.fail = "none"
     /\ HasKey(settings.profiles, ChosenProfile)
     /\ ChosenProfile # current_profile
     /\ apply_profile(settings, screen, current_profile, ChosenProfile, screen.outputs,
                      sinks, "", FALSE, FALSE, 0, "none").outcome = "ok")
    => /\ Applying
       /\ calls[Len(ConstructorCalls) + 2]
              = Call("xrandr", xrandr_cli(connected_output_names(screen),
                                          Get(settings.profiles, ChosenProfile),
                                          primary_output_name(Get(settings.profiles,
                                                                  ChosenProfile))))

-----------------------------------------------------------------------------
(* Properties of the flush and of the EDID descriptors, under ParseSpec.   *)

\* The outputs flushed so far, after the step: those of the Screen when the
\* step returned it, else those the parser holds
OutputsAfter ==
    IF parsed'.status = "returned" THEN parsed'.screen.outputs ELSE parser'.outputs

\* The step flushed the open output
Flushes ==
    /\ parsed'.status # "failed"
    /\ Len(OutputsAfter) = Len(parser.outputs) + 1

\* C31: a flushed output has no Monitor exactly when it accumulated no modes,
\* no preferred mode and no EDID hex lines; otherwise its Monitor holds the
\* set of the accumulated modes, the accumulated preferred mode and the EDID
\* decoded from the accumulated hex lines, None when there are no such lines.
C31_FlushedMonitor ==
    [][Flushes =>
          LET flushed == OutputsAfter[Len(OutputsAfter)]
              nothing == /\ parser.output_modes = <<>>
                         /\ parser.output_preferred_mode = None
                         /\ parser.output_edid_lines = <<>>
          IN  /\ flushed.name = parser.output_name
              /\ (flushed.monitor = None) <=> nothing
              /\ ~nothing =>
                     /\ flushed.monitor.reported_modes = Range(parser.output_modes)
                     /\ flushed.monitor.preferred_mode = parser.output_preferred_mode
                     /\ flushed.monitor.edid =
                            IF parser.output_edid_lines = <<>> THEN None
                            ELSE [raw |-> fromhex(join(parser.output_edid_lines)).bytes]]_vars

\* A Screen was returned with an output whose Monitor holds an EDID and no
\* mode: only hex lines were accumulated for it.
C31_Witness ==
    /\ Returned
    /\ \E i \in DOMAIN parsed.screen.outputs :
           /\ parsed.screen.outputs[i].monitor # None
           /\ parsed.screen.outputs[i].monitor.edid # None
           /\ parsed.screen.outputs[i].monitor.reported_modes = {}

\* The descriptor blocks (0..3) of the built EDIDInfo that begin with two
\* zero bytes
DisplayBlocks ==
    {k \in 0..3 : /\ decoded.edid.raw[54 + 18 * k + 1] = 0
                  /\ decoded.edid.raw[54 + 18 * k + 2] = 0}

\* Those of them of the type looked up
TypedBlocks == {k \in DisplayBlocks : decoded.edid.raw[54 + 18 * k + 4] = looked_up.id}

\* C32 (as claimed, under EdidSpec): a lookup by type returns the first of
\* the blocks beginning with two zero bytes that has the requested type, and
\* an empty result, not an error, when there is none; a block with a
\* non-zero header is never returned.
C32_Original ==
    looked_up.status # "none" =>
        /\ looked_up.status = "returned"
        /\ IF TypedBlocks = {} THEN looked_up.block = <<>>
           ELSE LET first == CHOOSE k \in TypedBlocks : \A j \in TypedBlocks : k <= j
                IN  looked_up.block
                        = SubSeq(decoded.edid.raw, 54 + 18 * first + 1, 54 + 18 * (first + 1))

-----------------------------------------------------------------------------
(* Properties of apply_profile's primary output, under Spec.               *)

\* The output the claim has the requested profile make primary: its first
\* primary candidate in declaration order, else its first declared output.
NominalPrimary ==
    LET declared == Requested.outputs
        flagged == {i \in DOMAIN declared : declared[i].value.primary_candidate}
        chosen == IF flagged = {} THEN DOMAIN declared ELSE flagged
    IN  declared[CHOOSE i \in chosen : \A j \in chosen : i <= j].key

\* The directives of a configuration command that carry the primary mark
Marked(directives) ==
    {j \in DOMAIN directives : "--primary" \in Range(directives[j])}

\* C34: a configuration command issued by apply_profile marks at most one
\* output primary, namely the profile's first primary-candidate output, or
\* its first declared output when it has no candidate, and marks none when
\* that output is not connected in the held screen.
C34_PrimaryMark ==
    Applied =>
        \A i \in DOMAIN Configurations(calls) :
            LET directives == Directives(Configurations(calls)[i].args)
            IN  /\ Cardinality(Marked(directives)) <= 1
                /\ \A j \in Marked(directives) : directives[j][2] = NominalPrimary
                /\ (Marked(directives) = {})
                       <=> (NominalPrimary \notin ConnectedNames(screen))

\* A command for a profile whose two outputs are both primary candidates:
\* it marks the first of them and not the second.
C34_Witness ==
    /\ Applied
    /\ outcome = "ok"
    /\ HasKey(settings.profiles, op.name)
    /\ Len(Requested.outputs) = 2
    /\ \A j \in DOMAIN Requested.outputs : Requested.outputs[j].value.primary_candidate
    /\ NominalPrimary = Requested.outputs[1].key
    /\ \E i \in DOMAIN Configurations(calls) :
           LET directives == Directives(Configurations(calls)[i].args)
           IN  /\ Len(directives) = 2
               /\ Cardinality(Marked(directives)) = 1

-----------------------------------------------------------------------------
(* Properties of apply_profile on any reported screen, under HeldSpec.     *)

\* The held screen has no primary output to resolve: no output is active,
\* or several active outputs are flagged primary.
NoActiveOutput == ActiveNames(screen.outputs) = {}

SeveralPrimaries ==
    Cardinality({i \in DOMAIN screen.outputs :
                     /\ screen.outputs[i].configuration # None
                     /\ screen.outputs[i].primary}) > 1

\* An existing profile other than the current one was asked for
AppliedAnother ==
    /\ Applied
    /\ HasKey(settings.profiles, op.name)
    /\ op.name # current_profile

\* C35: on a held screen with no active output, or with several active
\* primary outputs, apply_profile of a profile other than the current one
\* fails with the primary-output resolution error and issues no command,
\* whatever the profile would enable; so while the held screen has no
\* active output no step of the engine changes the display.
C35_NoPrimaryNoApply ==
    /\ []((AppliedAnother /\ (NoActiveOutput \/ SeveralPrimaries)) =>
             /\ calls = <<>>
             /\ outcome = IF SeveralPrimaries
                          THEN "AssertionError: Multiple primary outputs!"
                          ELSE "LookupError: no primary output because no active outputs")
    /\ [][NoActiveOutput => display' = display /\ ActiveNames(display') = {}]_vars

\* The call failed on a screen without an active output although the
\* profile configures a connected output.
C35_Witness ==
    /\ AppliedAnother
    /\ NoActiveOutput
    /\ outcome = "LookupError: no primary output because no active outputs"
    /\ Range(Keys(Requested.outputs)) \cap ConnectedNames(screen) # {}

-----------------------------------------------------------------------------
(* Properties of the engine under all of its operations, under EngineSpec. *)

\* C33: after construction and after any sequence of update_state,
\* apply_profile, next_valid_profile, cycle_primary_output and
\* cycle_pactl_sink calls, the held current and default profile names are
\* the current-profile and default-profile resolution of the held Screen
\* under the held Settings.
C33_DerivedValues ==
    /\ current_profile = get_current_profile(settings, screen)
    /\ default_profile = get_default_profile(settings, screen)
    /\ C5_CurrentProfile
    /\ C6_DefaultProfile

\* A refresh has replaced the held Screen after the outputs were changed by
\* an operation, and with it the current profile; the sink listing failed.
C33_Witness ==
    /\ op.kind = "update_state"
    /\ outcome = "RuntimeError"
    /\ calls = <<Call("xrandr", <<"--prop">>), ListSinksCall>>
    /\ screen = Screen(display)
    /\ current_profile # ""
    /\ candidate_pactl_sinks \notin
           get_candidate_pactl_sinks(settings, current_profile, sinks)

-----------------------------------------------------------------------------
(* Properties of repeated cycling, under CyclingSpec.                      *)

\* The profile names of the settings the model draws from
ProfileNames == {entry.key : entry \in ProfileCatalogue}

\* The profile n is valid: its output names are a non-empty subset of the
\* connected outputs
ValidProfile(n) ==
    /\ HasKey(settings.profiles, n)
    /\ Get(settings.profiles, n).outputs # <<>>
    /\ Range(Keys(Get(settings.profiles, n).outputs)) \subseteq ConnectedNames(Screen(display))

\* The run of --cycle-profile chose n and applied it
CycledTo(n) ==
    /\ op.kind = "cycle_profile"
    /\ op.name = n
    /\ outcome = "ok"
    /\ Applying

\* There is something to cycle to from n: another profile is valid, and an
\* output is active
Cyclable(n) ==
    /\ \E m \in ProfileNames \ {n} : ValidProfile(m)
    /\ ActiveNames(display) # {}

\* C36 (as claimed): on a display with an active output, under repeated
\* --cycle-profile runs every valid profile is eventually applied when
\* another profile is valid too, and no profile is chosen forever while
\* another profile is valid.
C36_Original ==
    \A n \in ProfileNames :
        /\ (ValidProfile(n) /\ Cyclable(n)) ~> CycledTo(n)
        /\ ~<>[](op.kind = "cycle_profile" /\ op.name = n /\ Cyclable(n))

-----------------------------------------------------------------------------
(* Properties of the broadcaster's threads, under BroadcastSpec.           *)

\* The positions whose statement reads or changes _clients
AccessPositions == {"add", "discard", "snapshot", "except"}

\* The threads about to read or change _clients
Accessing == {t \in Threads : position[t] \in AccessPositions}

\* C37 (as claimed): a thread about to read or change the client set holds
\* the clients lock, and a connection whose request is missing or has
\* another path is not in the set.
C37_Original ==
    /\ \A t \in Accessing : clients_lock = t
    /\ \A c \in clients :
           /\ connection[c].request # None
           /\ connection[c].request.path = BroadcastPath

-----------------------------------------------------------------------------
(* Properties of the battery monitor, under BatterySpec.                   *)

\* C38 (as claimed): once the monitor is constructed, and after every
\* update(), an icon has been rendered, and it was rendered for the current
\* render category and the current connected state.
C38_Original ==
    battery.exists =>
        /\ tray.pixbuf # None
        /\ get_render_category(tray.pixbuf.percent) = get_render_category(battery.capacity)
        /\ tray.pixbuf.connected = battery.connected

====
